---------------------------- MODULE Spec2Model ----------------------------
(***************************************************************************)
(* go-audit: the analyzer (the concurrent dispatcher AnalyzeFiles and      *)
(* analyzeFile), the six rules of internal/rules, pkg/config's two         *)
(* queries and pkg/report's sortIssues, as a state machine.                *)
(*                                                                         *)
(* A Go string is the tuple of its characters (one-character strings), so  *)
(* that strings.Contains, HasPrefix, HasSuffix, Trim, ToLower and the      *)
(* rules' regular expressions are computed, not looked up.  A syntax tree  *)
(* is a nested record with a "kind" field named after the go/ast node type *)
(* and the fields of that type the rules read; token.Pos is the byte       *)
(* offset of the node plus one, as go/token numbers a file added to a      *)
(* fresh FileSet.                                                          *)
(***************************************************************************)
EXTENDS Naturals, Integers, Sequences, FiniteSets, Bags, TLC

(***************************************************************************)
(* Strings (package strings, and the character classes of package regexp)  *)
(***************************************************************************)

\* The printable ASCII characters in byte order; Ord(c) is the byte of c.
\* Byte 96, the backquote, cannot be written in a TLA+ string and is named.
Ascii ==
    <<" ","!","\"","#","$","%","&","'","(",")","*","+",",","-",".","/",
      "0","1","2","3","4","5","6","7","8","9",":",";","<","=",">","?",
      "@","A","B","C","D","E","F","G","H","I","J","K","L","M","N","O",
      "P","Q","R","S","T","U","V","W","X","Y","Z","[","\\","]","^","_",
      "BACKQUOTE","a","b","c","d","e","f","g","h","i","j","k","l","m","n","o",
      "p","q","r","s","t","u","v","w","x","y","z","{","|","}","~">>

\* The index of c in Ascii.
AsciiIndex(c) == CHOOSE i \in 1..Len(Ascii) : Ascii[i] = c

Ord(c) == 31 + AsciiIndex(c)

UpperChars == {Ascii[i] : i \in 34..59}
LowerChars == {Ascii[i] : i \in 66..91}
DigitChars == {Ascii[i] : i \in 17..26}
\* \s of package regexp: [\t\n\f\r ]
SpaceChars == {" ", "\t", "\n", "\f", "\r"}
\* \w of package regexp: [0-9A-Za-z_]
WordChars == UpperChars \cup LowerChars \cup DigitChars \cup {"_"}

\* unicode.ToLower on one character.
LowerChar(c) == IF c \in UpperChars THEN Ascii[AsciiIndex(c) + 32] ELSE c

\* strings.ToLower
ToLower(s) == [i \in 1..Len(s) |-> LowerChar(s[i])]

\* p occurs in s at index i (1-based).
MatchAt(s, p, i) ==
    /\ i >= 1
    /\ i + Len(p) - 1 <= Len(s)
    /\ \A k \in 1..Len(p) : s[i + k - 1] = p[k]

\* strings.HasPrefix
HasPrefix(s, p) == MatchAt(s, p, 1)

\* strings.HasSuffix
HasSuffix(s, p) == Len(p) <= Len(s) /\ MatchAt(s, p, Len(s) - Len(p) + 1)

\* strings.Contains
Contains(s, p) == \E i \in 1..(Len(s) + 1) : MatchAt(s, p, i)

\* strings.Trim(s, cutset): s without its leading and trailing characters
\* that are in cutset.
Trim(s, cutset) ==
    LET keep == {i \in 1..Len(s) : s[i] \notin cutset}
    IN  IF keep = {} THEN <<>>
        ELSE LET lo == CHOOSE i \in keep : \A j \in keep : i <= j
                 hi == CHOOSE i \in keep : \A j \in keep : j <= i
             IN  SubSeq(s, lo, hi)

\* The < of Go strings: byte-wise lexicographic order.
StrLess(a, b) ==
    \E k \in 1..(Len(b)) :
        /\ \A j \in 1..(k - 1) : j <= Len(a) /\ a[j] = b[j]
        /\ k - 1 <= Len(a)
        /\ (k > Len(a) \/ Ord(a[k]) < Ord(b[k]))

\* Concatenation of a sequence of sequences.
RECURSIVE Flatten(_)
Flatten(ss) ==
    IF Len(ss) = 0 THEN <<>>
    ELSE IF Len(ss) = 1 THEN ss[1]
    ELSE LET half == Len(ss) \div 2
         IN  Flatten(SubSeq(ss, 1, half)) \o Flatten(SubSeq(ss, half + 1, Len(ss)))

(***************************************************************************)
(* Syntax trees (go/ast).  Every node has kind, id (the node's identity:   *)
(* go/ast nodes are pointers, and two nodes can share kind and position)   *)
(* and pos (Node.Pos()).  An optional child is a sequence of length 0 or   *)
(* 1.  Ident.obj is <<>> when Ident.Obj is nil and <<p>> when Obj is set,  *)
(* p being Obj.Pos(), the position of the declaring identifier.            *)
(***************************************************************************)

Ident(id, pos, name, obj) ==
    [kind |-> "Ident", id |-> id, pos |-> pos, name |-> name, obj |-> obj]
BasicLit(id, pos, litKind, value) ==
    [kind |-> "BasicLit", id |-> id, pos |-> pos, litKind |-> litKind, value |-> value]
BinaryExpr(id, pos, x, op, y) ==
    [kind |-> "BinaryExpr", id |-> id, pos |-> pos, x |-> x, op |-> op, y |-> y]
UnaryExpr(id, pos, op, x) ==
    [kind |-> "UnaryExpr", id |-> id, pos |-> pos, op |-> op, x |-> x]
StarExpr(id, pos, x) ==
    [kind |-> "StarExpr", id |-> id, pos |-> pos, x |-> x]
ParenExpr(id, pos, x) ==
    [kind |-> "ParenExpr", id |-> id, pos |-> pos, x |-> x]
IndexExpr(id, pos, x, index) ==
    [kind |-> "IndexExpr", id |-> id, pos |-> pos, x |-> x, index |-> index]
ArrayType(id, pos, elt) ==
    [kind |-> "ArrayType", id |-> id, pos |-> pos, elt |-> elt]
CallExpr(id, pos, fun, args) ==
    [kind |-> "CallExpr", id |-> id, pos |-> pos, fun |-> fun, args |-> args]
SelectorExpr(id, pos, x, sel) ==
    [kind |-> "SelectorExpr", id |-> id, pos |-> pos, x |-> x, sel |-> sel]
CompositeLit(id, pos, type, elts) ==
    [kind |-> "CompositeLit", id |-> id, pos |-> pos, type |-> type, elts |-> elts]
KeyValueExpr(id, pos, key, val) ==
    [kind |-> "KeyValueExpr", id |-> id, pos |-> pos, key |-> key, val |-> val]
AssignStmt(id, pos, lhs, tok, rhs) ==
    [kind |-> "AssignStmt", id |-> id, pos |-> pos, lhs |-> lhs, tok |-> tok, rhs |-> rhs]
ExprStmt(id, pos, x) ==
    [kind |-> "ExprStmt", id |-> id, pos |-> pos, x |-> x]
DeferStmt(id, pos, call) ==
    [kind |-> "DeferStmt", id |-> id, pos |-> pos, call |-> call]
GoStmt(id, pos, call) ==
    [kind |-> "GoStmt", id |-> id, pos |-> pos, call |-> call]
DeclStmt(id, pos, decl) ==
    [kind |-> "DeclStmt", id |-> id, pos |-> pos, decl |-> decl]
ReturnStmt(id, pos, results) ==
    [kind |-> "ReturnStmt", id |-> id, pos |-> pos, results |-> results]
IfStmt(id, pos, init, cond, body, els) ==
    [kind |-> "IfStmt", id |-> id, pos |-> pos, init |-> init, cond |-> cond,
     body |-> body, els |-> els]
BlockStmt(id, pos, list) ==
    [kind |-> "BlockStmt", id |-> id, pos |-> pos, list |-> list]
Field(id, pos, names, type) ==
    [kind |-> "Field", id |-> id, pos |-> pos, names |-> names, type |-> type]
FieldList(id, pos, list) ==
    [kind |-> "FieldList", id |-> id, pos |-> pos, list |-> list]
FuncType(id, pos, params, results) ==
    [kind |-> "FuncType", id |-> id, pos |-> pos, params |-> params, results |-> results]
FuncDecl(id, pos, fname, type, body) ==
    [kind |-> "FuncDecl", id |-> id, pos |-> pos, fname |-> fname, type |-> type,
     body |-> body]
ValueSpec(id, pos, names, typ, values) ==
    [kind |-> "ValueSpec", id |-> id, pos |-> pos, names |-> names, typ |-> typ,
     values |-> values]
TypeSpec(id, pos, tname, type) ==
    [kind |-> "TypeSpec", id |-> id, pos |-> pos, tname |-> tname, type |-> type]
StructType(id, pos, fields) ==
    [kind |-> "StructType", id |-> id, pos |-> pos, fields |-> fields]
\* alias is the field Name, <<>> when nil.
ImportSpec(id, pos, alias, path) ==
    [kind |-> "ImportSpec", id |-> id, pos |-> pos, alias |-> alias, path |-> path]
GenDecl(id, pos, tok, specs) ==
    [kind |-> "GenDecl", id |-> id, pos |-> pos, tok |-> tok, specs |-> specs]
\* ast.File; lines is the line table of the token.File: the offset at which
\* each line starts.
File(id, pos, pkgname, decls, imports, lines) ==
    [kind |-> "File", id |-> id, pos |-> pos, pkgname |-> pkgname, decls |-> decls,
     imports |-> imports, lines |-> lines]

\* The children of a node in the order ast.Walk visits them.
Children(n) ==
    CASE n.kind = "File" -> <<n.pkgname>> \o n.decls
      [] n.kind = "GenDecl" -> n.specs
      [] n.kind = "ImportSpec" -> n.alias \o <<n.path>>
      [] n.kind = "TypeSpec" -> <<n.tname, n.type>>
      [] n.kind = "StructType" -> <<n.fields>>
      [] n.kind = "ValueSpec" -> n.names \o n.typ \o n.values
      [] n.kind = "FuncDecl" -> <<n.fname, n.type, n.body>>
      [] n.kind = "FuncType" -> <<n.params>> \o n.results
      [] n.kind = "FieldList" -> n.list
      [] n.kind = "Field" -> n.names \o <<n.type>>
      [] n.kind = "BlockStmt" -> n.list
      [] n.kind = "AssignStmt" -> n.lhs \o n.rhs
      [] n.kind \in {"ExprStmt", "UnaryExpr", "StarExpr", "ParenExpr"} -> <<n.x>>
      [] n.kind \in {"DeferStmt", "GoStmt"} -> <<n.call>>
      [] n.kind = "DeclStmt" -> <<n.decl>>
      [] n.kind = "ReturnStmt" -> n.results
      [] n.kind = "IfStmt" -> n.init \o <<n.cond, n.body>> \o n.els
      [] n.kind = "BinaryExpr" -> <<n.x, n.y>>
      [] n.kind = "CallExpr" -> <<n.fun>> \o n.args
      [] n.kind = "SelectorExpr" -> <<n.x, n.sel>>
      [] n.kind = "IndexExpr" -> <<n.x, n.index>>
      [] n.kind = "ArrayType" -> <<n.elt>>
      [] n.kind = "CompositeLit" -> <<n.type>> \o n.elts
      [] n.kind = "KeyValueExpr" -> <<n.key, n.val>>
      [] OTHER -> <<>>

\* ast.Inspect(root, f): the nodes f is called with, in order (depth first,
\* a node before its children); the closing f(nil) calls are left out, every
\* callback of the rules returning at once on nil.
RECURSIVE Inspect(_)
Inspect(n) ==
    LET cs == Children(n)
    IN  <<n>> \o Flatten([i \in 1..Len(cs) |-> Inspect(cs[i])])

\* token.FileSet.Position(pos) for a file added at base 1: the line is the
\* last one starting at or before the offset, the column counts from 1.
Position(lines, pos) ==
    LET offset == pos - 1
        line == CHOOSE l \in 1..Len(lines) :
                    /\ lines[l] <= offset
                    /\ \A m \in 1..Len(lines) : lines[m] <= offset => m <= l
    IN  [Line |-> line, Column |-> offset - lines[line] + 1]

(***************************************************************************)
(* The files analysed: each the syntax tree parser.ParseFile returns for    *)
(* the Go source shown above it.                                           *)
(***************************************************************************)

(* assignments.go
    1  package main
    2  
    3  import (
    4      "io/ioutil"
    5      "log"
    6      "os"
    7  )
    8  
    9  func unchecked(name string) {
   10      f, err := os.Open(name)
   11      f.Close()
   12  }
   13  
   14  func checked(name string) []byte {
   15      f, err := os.Open(name)
   16      if err != nil {
   17          return nil
   18      }
   19      data, err := ioutil.ReadAll(f)
   20      return data
   21  }
   22  
   23  func single(f *os.File) {
   24      err := f.Close()
   25  }
   26  
   27  func named(name string) {
   28      f, e := os.Create(name)
   29      f.Sync()
   30  }
   31  
   32  func logged(name string) {
   33      data, err := ioutil.ReadFile(name)
   34      log.Print(err)
   35      os.Remove(name)
   36  }
   37  
   38  func several(src *os.File, dst *os.File) {
   39      err, cerr := src.Close(), dst.Close()
   40  }
   41  
   42  func returned(name string) error {
   43      var err error
   44      _, err = os.Stat(name)
   45      _, err = os.Open(name)
   46      return err
   47  }
*)
Tree_assignments ==
    File(1, 1,
      Ident(2, 9, <<"m","a","i","n">>, <<>>),
      <<GenDecl(3, 15,
          "import",
          <<ImportSpec(4, 25,
              <<>>,
              BasicLit(5, 25, "STRING", <<"\"","i","o","/","i","o","u","t","i","l","\"">>)),
            ImportSpec(6, 38,
              <<>>,
              BasicLit(7, 38, "STRING", <<"\"","l","o","g","\"">>)),
            ImportSpec(8, 45,
              <<>>,
              BasicLit(9, 45, "STRING", <<"\"","o","s","\"">>))>>),
        FuncDecl(10, 53,
          Ident(11, 58, <<"u","n","c","h","e","c","k","e","d">>, <<58>>),
          FuncType(12, 53,
            FieldList(13, 67,
              <<Field(14, 68,
                  <<Ident(15, 68, <<"n","a","m","e">>, <<68>>)>>,
                  Ident(16, 73, <<"s","t","r","i","n","g">>, <<>>))>>),
            <<>>),
          BlockStmt(17, 81,
            <<AssignStmt(18, 84,
                <<Ident(19, 84, <<"f">>, <<84>>),
                  Ident(20, 87, <<"e","r","r">>, <<87>>)>>,
                "DEFINE",
                <<CallExpr(21, 94,
                    SelectorExpr(22, 94,
                      Ident(23, 94, <<"o","s">>, <<>>),
                      Ident(24, 97, <<"O","p","e","n">>, <<>>)),
                    <<Ident(25, 102, <<"n","a","m","e">>, <<68>>)>>)>>),
              ExprStmt(26, 109,
                CallExpr(27, 109,
                  SelectorExpr(28, 109,
                    Ident(29, 109, <<"f">>, <<84>>),
                    Ident(30, 111, <<"C","l","o","s","e">>, <<>>)),
                  <<>>))>>)),
        FuncDecl(31, 122,
          Ident(32, 127, <<"c","h","e","c","k","e","d">>, <<127>>),
          FuncType(33, 122,
            FieldList(34, 134,
              <<Field(35, 135,
                  <<Ident(36, 135, <<"n","a","m","e">>, <<135>>)>>,
                  Ident(37, 140, <<"s","t","r","i","n","g">>, <<>>))>>),
            <<FieldList(38, 148,
                <<Field(39, 148,
                    <<>>,
                    ArrayType(40, 148,
                      Ident(41, 150, <<"b","y","t","e">>, <<>>)))>>)>>),
          BlockStmt(42, 155,
            <<AssignStmt(43, 158,
                <<Ident(44, 158, <<"f">>, <<158>>),
                  Ident(45, 161, <<"e","r","r">>, <<161>>)>>,
                "DEFINE",
                <<CallExpr(46, 168,
                    SelectorExpr(47, 168,
                      Ident(48, 168, <<"o","s">>, <<>>),
                      Ident(49, 171, <<"O","p","e","n">>, <<>>)),
                    <<Ident(50, 176, <<"n","a","m","e">>, <<135>>)>>)>>),
              IfStmt(51, 183,
                <<>>,
                BinaryExpr(52, 186,
                  Ident(53, 186, <<"e","r","r">>, <<161>>),
                  "!=",
                  Ident(54, 193, <<"n","i","l">>, <<>>)),
                BlockStmt(55, 197,
                  <<ReturnStmt(56, 201,
                      <<Ident(57, 208, <<"n","i","l">>, <<>>)>>)>>),
                <<>>),
              AssignStmt(58, 216,
                <<Ident(59, 216, <<"d","a","t","a">>, <<216>>),
                  Ident(60, 222, <<"e","r","r">>, <<161>>)>>,
                "DEFINE",
                <<CallExpr(61, 229,
                    SelectorExpr(62, 229,
                      Ident(63, 229, <<"i","o","u","t","i","l">>, <<>>),
                      Ident(64, 236, <<"R","e","a","d","A","l","l">>, <<>>)),
                    <<Ident(65, 244, <<"f">>, <<158>>)>>)>>),
              ReturnStmt(66, 248,
                <<Ident(67, 255, <<"d","a","t","a">>, <<216>>)>>)>>)),
        FuncDecl(68, 263,
          Ident(69, 268, <<"s","i","n","g","l","e">>, <<268>>),
          FuncType(70, 263,
            FieldList(71, 274,
              <<Field(72, 275,
                  <<Ident(73, 275, <<"f">>, <<275>>)>>,
                  StarExpr(74, 277,
                    SelectorExpr(75, 278,
                      Ident(76, 278, <<"o","s">>, <<>>),
                      Ident(77, 281, <<"F","i","l","e">>, <<>>))))>>),
            <<>>),
          BlockStmt(78, 287,
            <<AssignStmt(79, 290,
                <<Ident(80, 290, <<"e","r","r">>, <<290>>)>>,
                "DEFINE",
                <<CallExpr(81, 297,
                    SelectorExpr(82, 297,
                      Ident(83, 297, <<"f">>, <<275>>),
                      Ident(84, 299, <<"C","l","o","s","e">>, <<>>)),
                    <<>>)>>)>>)),
        FuncDecl(85, 310,
          Ident(86, 315, <<"n","a","m","e","d">>, <<315>>),
          FuncType(87, 310,
            FieldList(88, 320,
              <<Field(89, 321,
                  <<Ident(90, 321, <<"n","a","m","e">>, <<321>>)>>,
                  Ident(91, 326, <<"s","t","r","i","n","g">>, <<>>))>>),
            <<>>),
          BlockStmt(92, 334,
            <<AssignStmt(93, 337,
                <<Ident(94, 337, <<"f">>, <<337>>),
                  Ident(95, 340, <<"e">>, <<340>>)>>,
                "DEFINE",
                <<CallExpr(96, 345,
                    SelectorExpr(97, 345,
                      Ident(98, 345, <<"o","s">>, <<>>),
                      Ident(99, 348, <<"C","r","e","a","t","e">>, <<>>)),
                    <<Ident(100, 355, <<"n","a","m","e">>, <<321>>)>>)>>),
              ExprStmt(101, 362,
                CallExpr(102, 362,
                  SelectorExpr(103, 362,
                    Ident(104, 362, <<"f">>, <<337>>),
                    Ident(105, 364, <<"S","y","n","c">>, <<>>)),
                  <<>>))>>)),
        FuncDecl(106, 374,
          Ident(107, 379, <<"l","o","g","g","e","d">>, <<379>>),
          FuncType(108, 374,
            FieldList(109, 385,
              <<Field(110, 386,
                  <<Ident(111, 386, <<"n","a","m","e">>, <<386>>)>>,
                  Ident(112, 391, <<"s","t","r","i","n","g">>, <<>>))>>),
            <<>>),
          BlockStmt(113, 399,
            <<AssignStmt(114, 402,
                <<Ident(115, 402, <<"d","a","t","a">>, <<402>>),
                  Ident(116, 408, <<"e","r","r">>, <<408>>)>>,
                "DEFINE",
                <<CallExpr(117, 415,
                    SelectorExpr(118, 415,
                      Ident(119, 415, <<"i","o","u","t","i","l">>, <<>>),
                      Ident(120, 422, <<"R","e","a","d","F","i","l","e">>, <<>>)),
                    <<Ident(121, 431, <<"n","a","m","e">>, <<386>>)>>)>>),
              ExprStmt(122, 438,
                CallExpr(123, 438,
                  SelectorExpr(124, 438,
                    Ident(125, 438, <<"l","o","g">>, <<>>),
                    Ident(126, 442, <<"P","r","i","n","t">>, <<>>)),
                  <<Ident(127, 448, <<"e","r","r">>, <<408>>)>>)),
              ExprStmt(128, 454,
                CallExpr(129, 454,
                  SelectorExpr(130, 454,
                    Ident(131, 454, <<"o","s">>, <<>>),
                    Ident(132, 457, <<"R","e","m","o","v","e">>, <<>>)),
                  <<Ident(133, 464, <<"n","a","m","e">>, <<386>>)>>))>>)),
        FuncDecl(134, 473,
          Ident(135, 478, <<"s","e","v","e","r","a","l">>, <<478>>),
          FuncType(136, 473,
            FieldList(137, 485,
              <<Field(138, 486,
                  <<Ident(139, 486, <<"s","r","c">>, <<486>>)>>,
                  StarExpr(140, 490,
                    SelectorExpr(141, 491,
                      Ident(142, 491, <<"o","s">>, <<>>),
                      Ident(143, 494, <<"F","i","l","e">>, <<>>)))),
                Field(144, 500,
                  <<Ident(145, 500, <<"d","s","t">>, <<500>>)>>,
                  StarExpr(146, 504,
                    SelectorExpr(147, 505,
                      Ident(148, 505, <<"o","s">>, <<>>),
                      Ident(149, 508, <<"F","i","l","e">>, <<>>))))>>),
            <<>>),
          BlockStmt(150, 514,
            <<AssignStmt(151, 517,
                <<Ident(152, 517, <<"e","r","r">>, <<517>>),
                  Ident(153, 522, <<"c","e","r","r">>, <<522>>)>>,
                "DEFINE",
                <<CallExpr(154, 530,
                    SelectorExpr(155, 530,
                      Ident(156, 530, <<"s","r","c">>, <<486>>),
                      Ident(157, 534, <<"C","l","o","s","e">>, <<>>)),
                    <<>>),
                  CallExpr(158, 543,
                    SelectorExpr(159, 543,
                      Ident(160, 543, <<"d","s","t">>, <<500>>),
                      Ident(161, 547, <<"C","l","o","s","e">>, <<>>)),
                    <<>>)>>)>>)),
        FuncDecl(162, 558,
          Ident(163, 563, <<"r","e","t","u","r","n","e","d">>, <<563>>),
          FuncType(164, 558,
            FieldList(165, 571,
              <<Field(166, 572,
                  <<Ident(167, 572, <<"n","a","m","e">>, <<572>>)>>,
                  Ident(168, 577, <<"s","t","r","i","n","g">>, <<>>))>>),
            <<FieldList(169, 585,
                <<Field(170, 585,
                    <<>>,
                    Ident(171, 585, <<"e","r","r","o","r">>, <<>>))>>)>>),
          BlockStmt(172, 591,
            <<DeclStmt(173, 594,
                GenDecl(174, 594,
                  "var",
                  <<ValueSpec(175, 598,
                      <<Ident(176, 598, <<"e","r","r">>, <<598>>)>>,
                      <<Ident(177, 602, <<"e","r","r","o","r">>, <<>>)>>,
                      <<>>)>>)),
              AssignStmt(178, 609,
                <<Ident(179, 609, <<"_">>, <<>>),
                  Ident(180, 612, <<"e","r","r">>, <<598>>)>>,
                "ASSIGN",
                <<CallExpr(181, 618,
                    SelectorExpr(182, 618,
                      Ident(183, 618, <<"o","s">>, <<>>),
                      Ident(184, 621, <<"S","t","a","t">>, <<>>)),
                    <<Ident(185, 626, <<"n","a","m","e">>, <<572>>)>>)>>),
              AssignStmt(186, 633,
                <<Ident(187, 633, <<"_">>, <<>>),
                  Ident(188, 636, <<"e","r","r">>, <<598>>)>>,
                "ASSIGN",
                <<CallExpr(189, 642,
                    SelectorExpr(190, 642,
                      Ident(191, 642, <<"o","s">>, <<>>),
                      Ident(192, 645, <<"O","p","e","n">>, <<>>)),
                    <<Ident(193, 650, <<"n","a","m","e">>, <<572>>)>>)>>),
              ReturnStmt(194, 657,
                <<Ident(195, 664, <<"e","r","r">>, <<598>>)>>)>>))>>,
      <<ImportSpec(4, 25,
          <<>>,
          BasicLit(5, 25, "STRING", <<"\"","i","o","/","i","o","u","t","i","l","\"">>)),
        ImportSpec(6, 38,
          <<>>,
          BasicLit(7, 38, "STRING", <<"\"","l","o","g","\"">>)),
        ImportSpec(8, 45,
          <<>>,
          BasicLit(9, 45, "STRING", <<"\"","o","s","\"">>))>>,
      <<0, 13, 14, 23, 36, 43, 49, 51, 52, 82, 107, 118, 120, 121, 156, 181, 198, 211, 214, 246, 259, 261, 262, 288, 306, 308, 309, 335, 360, 370, 372, 373, 400, 436, 452, 469, 471, 472, 515, 554, 556, 557, 592, 607, 631, 655, 667>>)

(* bcrypt.go
    1  package main
    2  
    3  import "golang.org/x/crypto/bcrypt"
    4  
    5  func hash(pwd []byte) {
    6      bcrypt.GenerateFromPassword(pwd, 4)
    7      bcrypt.GenerateFromPassword(pwd, 6)
    8      bcrypt.GenerateFromPassword(pwd, 7)
    9      bcrypt.GenerateFromPassword(pwd, 9)
   10      bcrypt.GenerateFromPassword(pwd, 10)
   11      bcrypt.GenerateFromPassword(pwd, 12)
   12      bcrypt.GenerateFromPassword(pwd, bcrypt.DefaultCost)
   13  }
*)
Tree_bcrypt ==
    File(1, 1,
      Ident(2, 9, <<"m","a","i","n">>, <<>>),
      <<GenDecl(3, 15,
          "import",
          <<ImportSpec(4, 22,
              <<>>,
              BasicLit(5, 22, "STRING", <<"\"","g","o","l","a","n","g",".","o","r","g","/","x","/","c","r","y","p","t","o","/","b","c","r","y","p","t","\"">>))>>),
        FuncDecl(6, 52,
          Ident(7, 57, <<"h","a","s","h">>, <<57>>),
          FuncType(8, 52,
            FieldList(9, 61,
              <<Field(10, 62,
                  <<Ident(11, 62, <<"p","w","d">>, <<62>>)>>,
                  ArrayType(12, 66,
                    Ident(13, 68, <<"b","y","t","e">>, <<>>)))>>),
            <<>>),
          BlockStmt(14, 74,
            <<ExprStmt(15, 77,
                CallExpr(16, 77,
                  SelectorExpr(17, 77,
                    Ident(18, 77, <<"b","c","r","y","p","t">>, <<>>),
                    Ident(19, 84, <<"G","e","n","e","r","a","t","e","F","r","o","m","P","a","s","s","w","o","r","d">>, <<>>)),
                  <<Ident(20, 105, <<"p","w","d">>, <<62>>),
                    BasicLit(21, 110, "INT", <<"4">>)>>)),
              ExprStmt(22, 114,
                CallExpr(23, 114,
                  SelectorExpr(24, 114,
                    Ident(25, 114, <<"b","c","r","y","p","t">>, <<>>),
                    Ident(26, 121, <<"G","e","n","e","r","a","t","e","F","r","o","m","P","a","s","s","w","o","r","d">>, <<>>)),
                  <<Ident(27, 142, <<"p","w","d">>, <<62>>),
                    BasicLit(28, 147, "INT", <<"6">>)>>)),
              ExprStmt(29, 151,
                CallExpr(30, 151,
                  SelectorExpr(31, 151,
                    Ident(32, 151, <<"b","c","r","y","p","t">>, <<>>),
                    Ident(33, 158, <<"G","e","n","e","r","a","t","e","F","r","o","m","P","a","s","s","w","o","r","d">>, <<>>)),
                  <<Ident(34, 179, <<"p","w","d">>, <<62>>),
                    BasicLit(35, 184, "INT", <<"7">>)>>)),
              ExprStmt(36, 188,
                CallExpr(37, 188,
                  SelectorExpr(38, 188,
                    Ident(39, 188, <<"b","c","r","y","p","t">>, <<>>),
                    Ident(40, 195, <<"G","e","n","e","r","a","t","e","F","r","o","m","P","a","s","s","w","o","r","d">>, <<>>)),
                  <<Ident(41, 216, <<"p","w","d">>, <<62>>),
                    BasicLit(42, 221, "INT", <<"9">>)>>)),
              ExprStmt(43, 225,
                CallExpr(44, 225,
                  SelectorExpr(45, 225,
                    Ident(46, 225, <<"b","c","r","y","p","t">>, <<>>),
                    Ident(47, 232, <<"G","e","n","e","r","a","t","e","F","r","o","m","P","a","s","s","w","o","r","d">>, <<>>)),
                  <<Ident(48, 253, <<"p","w","d">>, <<62>>),
                    BasicLit(49, 258, "INT", <<"1","0">>)>>)),
              ExprStmt(50, 263,
                CallExpr(51, 263,
                  SelectorExpr(52, 263,
                    Ident(53, 263, <<"b","c","r","y","p","t">>, <<>>),
                    Ident(54, 270, <<"G","e","n","e","r","a","t","e","F","r","o","m","P","a","s","s","w","o","r","d">>, <<>>)),
                  <<Ident(55, 291, <<"p","w","d">>, <<62>>),
                    BasicLit(56, 296, "INT", <<"1","2">>)>>)),
              ExprStmt(57, 301,
                CallExpr(58, 301,
                  SelectorExpr(59, 301,
                    Ident(60, 301, <<"b","c","r","y","p","t">>, <<>>),
                    Ident(61, 308, <<"G","e","n","e","r","a","t","e","F","r","o","m","P","a","s","s","w","o","r","d">>, <<>>)),
                  <<Ident(62, 329, <<"p","w","d">>, <<62>>),
                    SelectorExpr(63, 334,
                      Ident(64, 334, <<"b","c","r","y","p","t">>, <<>>),
                      Ident(65, 341, <<"D","e","f","a","u","l","t","C","o","s","t">>, <<>>))>>))>>))>>,
      <<ImportSpec(4, 22,
          <<>>,
          BasicLit(5, 22, "STRING", <<"\"","g","o","l","a","n","g",".","o","r","g","/","x","/","c","r","y","p","t","o","/","b","c","r","y","p","t","\"">>))>>,
      <<0, 13, 14, 50, 51, 75, 112, 149, 186, 223, 261, 299, 353>>)

(* create.go
    1  package main
    2  
    3  import "os"
    4  
    5  func criticalOperationsWithoutCheck() {
    6      f, _ := os.Create("test.txt")
    7      f.Write([]byte("data"))
    8      f.Close()
    9  }
*)
Tree_create ==
    File(1, 1,
      Ident(2, 9, <<"m","a","i","n">>, <<>>),
      <<GenDecl(3, 15,
          "import",
          <<ImportSpec(4, 22,
              <<>>,
              BasicLit(5, 22, "STRING", <<"\"","o","s","\"">>))>>),
        FuncDecl(6, 28,
          Ident(7, 33, <<"c","r","i","t","i","c","a","l","O","p","e","r","a","t","i","o","n","s","W","i","t","h","o","u","t","C","h","e","c","k">>, <<33>>),
          FuncType(8, 28,
            FieldList(9, 63,
              <<>>),
            <<>>),
          BlockStmt(10, 66,
            <<AssignStmt(11, 69,
                <<Ident(12, 69, <<"f">>, <<69>>),
                  Ident(13, 72, <<"_">>, <<72>>)>>,
                "DEFINE",
                <<CallExpr(14, 77,
                    SelectorExpr(15, 77,
                      Ident(16, 77, <<"o","s">>, <<>>),
                      Ident(17, 80, <<"C","r","e","a","t","e">>, <<>>)),
                    <<BasicLit(18, 87, "STRING", <<"\"","t","e","s","t",".","t","x","t","\"">>)>>)>>),
              ExprStmt(19, 100,
                CallExpr(20, 100,
                  SelectorExpr(21, 100,
                    Ident(22, 100, <<"f">>, <<69>>),
                    Ident(23, 102, <<"W","r","i","t","e">>, <<>>)),
                  <<CallExpr(24, 108,
                      ArrayType(25, 108,
                        Ident(26, 110, <<"b","y","t","e">>, <<>>)),
                      <<BasicLit(27, 115, "STRING", <<"\"","d","a","t","a","\"">>)>>)>>)),
              ExprStmt(28, 125,
                CallExpr(29, 125,
                  SelectorExpr(30, 125,
                    Ident(31, 125, <<"f">>, <<69>>),
                    Ident(32, 127, <<"C","l","o","s","e">>, <<>>)),
                  <<>>))>>))>>,
      <<ImportSpec(4, 22,
          <<>>,
          BasicLit(5, 22, "STRING", <<"\"","o","s","\"">>))>>,
      <<0, 13, 14, 26, 27, 67, 98, 123, 134>>)

(* db.go
    1  package main
    2  
    3  import (
    4      "database/sql"
    5      "fmt"
    6  )
    7  
    8  func main() {
    9      db, _ := sql.Open("mysql", "user:password@/dbname")
   10  
   11      username := "admin"
   12      query := "SELECT * FROM users WHERE username = '" + username + "'"
   13      db.Query(query)
   14  
   15      fmt.Println("query:", query)
   16  }
*)
Tree_db ==
    File(1, 1,
      Ident(2, 9, <<"m","a","i","n">>, <<>>),
      <<GenDecl(3, 15,
          "import",
          <<ImportSpec(4, 25,
              <<>>,
              BasicLit(5, 25, "STRING", <<"\"","d","a","t","a","b","a","s","e","/","s","q","l","\"">>)),
            ImportSpec(6, 41,
              <<>>,
              BasicLit(7, 41, "STRING", <<"\"","f","m","t","\"">>))>>),
        FuncDecl(8, 50,
          Ident(9, 55, <<"m","a","i","n">>, <<55>>),
          FuncType(10, 50,
            FieldList(11, 59,
              <<>>),
            <<>>),
          BlockStmt(12, 62,
            <<AssignStmt(13, 65,
                <<Ident(14, 65, <<"d","b">>, <<65>>),
                  Ident(15, 69, <<"_">>, <<69>>)>>,
                "DEFINE",
                <<CallExpr(16, 74,
                    SelectorExpr(17, 74,
                      Ident(18, 74, <<"s","q","l">>, <<>>),
                      Ident(19, 78, <<"O","p","e","n">>, <<>>)),
                    <<BasicLit(20, 83, "STRING", <<"\"","m","y","s","q","l","\"">>),
                      BasicLit(21, 92, "STRING", <<"\"","u","s","e","r",":","p","a","s","s","w","o","r","d","@","/","d","b","n","a","m","e","\"">>)>>)>>),
              AssignStmt(22, 119,
                <<Ident(23, 119, <<"u","s","e","r","n","a","m","e">>, <<119>>)>>,
                "DEFINE",
                <<BasicLit(24, 131, "STRING", <<"\"","a","d","m","i","n","\"">>)>>),
              AssignStmt(25, 140,
                <<Ident(26, 140, <<"q","u","e","r","y">>, <<140>>)>>,
                "DEFINE",
                <<BinaryExpr(27, 149,
                    BinaryExpr(28, 149,
                      BasicLit(29, 149, "STRING", <<"\"","S","E","L","E","C","T"," ","*"," ","F","R","O","M"," ","u","s","e","r","s"," ","W","H","E","R","E"," ","u","s","e","r","n","a","m","e"," ","="," ","'","\"">>),
                      "+",
                      Ident(30, 192, <<"u","s","e","r","n","a","m","e">>, <<119>>)),
                    "+",
                    BasicLit(31, 203, "STRING", <<"\"","'","\"">>))>>),
              ExprStmt(32, 208,
                CallExpr(33, 208,
                  SelectorExpr(34, 208,
                    Ident(35, 208, <<"d","b">>, <<65>>),
                    Ident(36, 211, <<"Q","u","e","r","y">>, <<>>)),
                  <<Ident(37, 217, <<"q","u","e","r","y">>, <<140>>)>>)),
              ExprStmt(38, 226,
                CallExpr(39, 226,
                  SelectorExpr(40, 226,
                    Ident(41, 226, <<"f","m","t">>, <<>>),
                    Ident(42, 230, <<"P","r","i","n","t","l","n">>, <<>>)),
                  <<BasicLit(43, 238, "STRING", <<"\"","q","u","e","r","y",":","\"">>),
                    Ident(44, 248, <<"q","u","e","r","y">>, <<140>>)>>))>>))>>,
      <<ImportSpec(4, 25,
          <<>>,
          BasicLit(5, 25, "STRING", <<"\"","d","a","t","a","b","a","s","e","/","s","q","l","\"">>)),
        ImportSpec(6, 41,
          <<>>,
          BasicLit(7, 41, "STRING", <<"\"","f","m","t","\"">>))>>,
      <<0, 13, 14, 23, 39, 46, 48, 49, 63, 116, 117, 138, 206, 223, 224, 254>>)

(* directcall.go
    1  
    2  package main
    3  
    4  import "database/sql"
    5  
    6  func directUnsafeCall(db *sql.DB, input string) {
    7      db.Exec("DELETE FROM users WHERE id = " + input)
    8  }
*)
Tree_directcall ==
    File(1, 2,
      Ident(2, 10, <<"m","a","i","n">>, <<>>),
      <<GenDecl(3, 16,
          "import",
          <<ImportSpec(4, 23,
              <<>>,
              BasicLit(5, 23, "STRING", <<"\"","d","a","t","a","b","a","s","e","/","s","q","l","\"">>))>>),
        FuncDecl(6, 39,
          Ident(7, 44, <<"d","i","r","e","c","t","U","n","s","a","f","e","C","a","l","l">>, <<44>>),
          FuncType(8, 39,
            FieldList(9, 60,
              <<Field(10, 61,
                  <<Ident(11, 61, <<"d","b">>, <<61>>)>>,
                  StarExpr(12, 64,
                    SelectorExpr(13, 65,
                      Ident(14, 65, <<"s","q","l">>, <<>>),
                      Ident(15, 69, <<"D","B">>, <<>>)))),
                Field(16, 73,
                  <<Ident(17, 73, <<"i","n","p","u","t">>, <<73>>)>>,
                  Ident(18, 79, <<"s","t","r","i","n","g">>, <<>>))>>),
            <<>>),
          BlockStmt(19, 87,
            <<ExprStmt(20, 90,
                CallExpr(21, 90,
                  SelectorExpr(22, 90,
                    Ident(23, 90, <<"d","b">>, <<61>>),
                    Ident(24, 93, <<"E","x","e","c">>, <<>>)),
                  <<BinaryExpr(25, 98,
                      BasicLit(26, 98, "STRING", <<"\"","D","E","L","E","T","E"," ","F","R","O","M"," ","u","s","e","r","s"," ","W","H","E","R","E"," ","i","d"," ","="," ","\"">>),
                      "+",
                      Ident(27, 132, <<"i","n","p","u","t">>, <<73>>))>>))>>))>>,
      <<ImportSpec(4, 23,
          <<>>,
          BasicLit(5, 23, "STRING", <<"\"","d","a","t","a","b","a","s","e","/","s","q","l","\"">>))>>,
      <<0, 1, 14, 15, 37, 38, 88, 138>>)

(* errorcheck.go
    1  
    2  package main
    3  
    4  import (
    5      "os"
    6      "io/ioutil"
    7      "fmt"
    8  )
    9  
   10  func processFile(filename string) {
   11      // (comment)
   12      file, _ := os.Open(filename)
   13      
   14      // (comment)
   15      data, err := ioutil.ReadAll(file)
   16      if err != nil {
   17          return
   18      }
   19      
   20      // (comment)
   21      file.Close()
   22      
   23      // (comment)
   24      os.Remove(filename)
   25  }
   26  
   27  func criticalOperationsWithoutCheck() {
   28      f, _ := os.Create("test.txt")
   29      f.Write([]byte("data"))
   30      f.Close()
   31  }
*)
Tree_errorcheck ==
    File(1, 2,
      Ident(2, 10, <<"m","a","i","n">>, <<>>),
      <<GenDecl(3, 16,
          "import",
          <<ImportSpec(4, 26,
              <<>>,
              BasicLit(5, 26, "STRING", <<"\"","o","s","\"">>)),
            ImportSpec(6, 32,
              <<>>,
              BasicLit(7, 32, "STRING", <<"\"","i","o","/","i","o","u","t","i","l","\"">>)),
            ImportSpec(8, 45,
              <<>>,
              BasicLit(9, 45, "STRING", <<"\"","f","m","t","\"">>))>>),
        FuncDecl(10, 54,
          Ident(11, 59, <<"p","r","o","c","e","s","s","F","i","l","e">>, <<59>>),
          FuncType(12, 54,
            FieldList(13, 70,
              <<Field(14, 71,
                  <<Ident(15, 71, <<"f","i","l","e","n","a","m","e">>, <<71>>)>>,
                  Ident(16, 80, <<"s","t","r","i","n","g">>, <<>>))>>),
            <<>>),
          BlockStmt(17, 88,
            <<AssignStmt(18, 105,
                <<Ident(19, 105, <<"f","i","l","e">>, <<105>>),
                  Ident(20, 111, <<"_">>, <<111>>)>>,
                "DEFINE",
                <<CallExpr(21, 116,
                    SelectorExpr(22, 116,
                      Ident(23, 116, <<"o","s">>, <<>>),
                      Ident(24, 119, <<"O","p","e","n">>, <<>>)),
                    <<Ident(25, 124, <<"f","i","l","e","n","a","m","e">>, <<71>>)>>)>>),
              AssignStmt(26, 151,
                <<Ident(27, 151, <<"d","a","t","a">>, <<151>>),
                  Ident(28, 157, <<"e","r","r">>, <<157>>)>>,
                "DEFINE",
                <<CallExpr(29, 164,
                    SelectorExpr(30, 164,
                      Ident(31, 164, <<"i","o","u","t","i","l">>, <<>>),
                      Ident(32, 171, <<"R","e","a","d","A","l","l">>, <<>>)),
                    <<Ident(33, 179, <<"f","i","l","e">>, <<105>>)>>)>>),
              IfStmt(34, 186,
                <<>>,
                BinaryExpr(35, 189,
                  Ident(36, 189, <<"e","r","r">>, <<157>>),
                  "!=",
                  Ident(37, 196, <<"n","i","l">>, <<>>)),
                BlockStmt(38, 200,
                  <<ReturnStmt(39, 204,
                      <<>>)>>),
                <<>>),
              ExprStmt(40, 231,
                CallExpr(41, 231,
                  SelectorExpr(42, 231,
                    Ident(43, 231, <<"f","i","l","e">>, <<105>>),
                    Ident(44, 236, <<"C","l","o","s","e">>, <<>>)),
                  <<>>)),
              ExprStmt(45, 261,
                CallExpr(46, 261,
                  SelectorExpr(47, 261,
                    Ident(48, 261, <<"o","s">>, <<>>),
                    Ident(49, 264, <<"R","e","m","o","v","e">>, <<>>)),
                  <<Ident(50, 271, <<"f","i","l","e","n","a","m","e">>, <<71>>)>>))>>)),
        FuncDecl(51, 284,
          Ident(52, 289, <<"c","r","i","t","i","c","a","l","O","p","e","r","a","t","i","o","n","s","W","i","t","h","o","u","t","C","h","e","c","k">>, <<289>>),
          FuncType(53, 284,
            FieldList(54, 319,
              <<>>),
            <<>>),
          BlockStmt(55, 322,
            <<AssignStmt(56, 325,
                <<Ident(57, 325, <<"f">>, <<325>>),
                  Ident(58, 328, <<"_">>, <<328>>)>>,
                "DEFINE",
                <<CallExpr(59, 333,
                    SelectorExpr(60, 333,
                      Ident(61, 333, <<"o","s">>, <<>>),
                      Ident(62, 336, <<"C","r","e","a","t","e">>, <<>>)),
                    <<BasicLit(63, 343, "STRING", <<"\"","t","e","s","t",".","t","x","t","\"">>)>>)>>),
              ExprStmt(64, 356,
                CallExpr(65, 356,
                  SelectorExpr(66, 356,
                    Ident(67, 356, <<"f">>, <<325>>),
                    Ident(68, 358, <<"W","r","i","t","e">>, <<>>)),
                  <<CallExpr(69, 364,
                      ArrayType(70, 364,
                        Ident(71, 366, <<"b","y","t","e">>, <<>>)),
                      <<BasicLit(72, 371, "STRING", <<"\"","d","a","t","a","\"">>)>>)>>)),
              ExprStmt(73, 381,
                CallExpr(74, 381,
                  SelectorExpr(75, 381,
                    Ident(76, 381, <<"f">>, <<325>>),
                    Ident(77, 383, <<"C","l","o","s","e">>, <<>>)),
                  <<>>))>>))>>,
      <<ImportSpec(4, 26,
          <<>>,
          BasicLit(5, 26, "STRING", <<"\"","o","s","\"">>)),
        ImportSpec(6, 32,
          <<>>,
          BasicLit(7, 32, "STRING", <<"\"","i","o","/","i","o","u","t","i","l","\"">>)),
        ImportSpec(8, 45,
          <<>>,
          BasicLit(9, 45, "STRING", <<"\"","f","m","t","\"">>))>>,
      <<0, 1, 14, 15, 24, 30, 43, 50, 52, 53, 89, 103, 133, 135, 149, 184, 201, 210, 213, 215, 229, 243, 245, 259, 280, 282, 283, 323, 354, 379, 390>>)

(* global.go
    1  package main
    2  
    3  var apiToken = "abcd1234efgh"
    4  
    5  func failed() bool {
    6      return err != nil
    7  }
*)
Tree_global ==
    File(1, 1,
      Ident(2, 9, <<"m","a","i","n">>, <<>>),
      <<GenDecl(3, 15,
          "var",
          <<ValueSpec(4, 19,
              <<Ident(5, 19, <<"a","p","i","T","o","k","e","n">>, <<19>>)>>,
              <<>>,
              <<BasicLit(6, 30, "STRING", <<"\"","a","b","c","d","1","2","3","4","e","f","g","h","\"">>)>>)>>),
        FuncDecl(7, 46,
          Ident(8, 51, <<"f","a","i","l","e","d">>, <<51>>),
          FuncType(9, 46,
            FieldList(10, 57,
              <<>>),
            <<FieldList(11, 60,
                <<Field(12, 60,
                    <<>>,
                    Ident(13, 60, <<"b","o","o","l">>, <<>>))>>)>>),
          BlockStmt(14, 65,
            <<ReturnStmt(15, 68,
                <<BinaryExpr(16, 75,
                    Ident(17, 75, <<"e","r","r">>, <<>>),
                    "!=",
                    Ident(18, 82, <<"n","i","l">>, <<>>))>>)>>))>>,
      <<>>,
      <<0, 13, 14, 44, 45, 66, 85>>)

(* handler.go
    1  package main
    2  
    3  import (
    4      "net/http"
    5      "os/exec"
    6  )
    7  
    8  func handle(w http.ResponseWriter, r *http.Request) {
    9      name := r.FormValue("name")
   10      exec.Command("ls", name).Run()
   11  }
*)
Tree_handler ==
    File(1, 1,
      Ident(2, 9, <<"m","a","i","n">>, <<>>),
      <<GenDecl(3, 15,
          "import",
          <<ImportSpec(4, 25,
              <<>>,
              BasicLit(5, 25, "STRING", <<"\"","n","e","t","/","h","t","t","p","\"">>)),
            ImportSpec(6, 37,
              <<>>,
              BasicLit(7, 37, "STRING", <<"\"","o","s","/","e","x","e","c","\"">>))>>),
        FuncDecl(8, 50,
          Ident(9, 55, <<"h","a","n","d","l","e">>, <<55>>),
          FuncType(10, 50,
            FieldList(11, 61,
              <<Field(12, 62,
                  <<Ident(13, 62, <<"w">>, <<62>>)>>,
                  SelectorExpr(14, 64,
                    Ident(15, 64, <<"h","t","t","p">>, <<>>),
                    Ident(16, 69, <<"R","e","s","p","o","n","s","e","W","r","i","t","e","r">>, <<>>))),
                Field(17, 85,
                  <<Ident(18, 85, <<"r">>, <<85>>)>>,
                  StarExpr(19, 87,
                    SelectorExpr(20, 88,
                      Ident(21, 88, <<"h","t","t","p">>, <<>>),
                      Ident(22, 93, <<"R","e","q","u","e","s","t">>, <<>>))))>>),
            <<>>),
          BlockStmt(23, 102,
            <<AssignStmt(24, 105,
                <<Ident(25, 105, <<"n","a","m","e">>, <<105>>)>>,
                "DEFINE",
                <<CallExpr(26, 113,
                    SelectorExpr(27, 113,
                      Ident(28, 113, <<"r">>, <<85>>),
                      Ident(29, 115, <<"F","o","r","m","V","a","l","u","e">>, <<>>)),
                    <<BasicLit(30, 125, "STRING", <<"\"","n","a","m","e","\"">>)>>)>>),
              ExprStmt(31, 134,
                CallExpr(32, 134,
                  SelectorExpr(33, 134,
                    CallExpr(34, 134,
                      SelectorExpr(35, 134,
                        Ident(36, 134, <<"e","x","e","c">>, <<>>),
                        Ident(37, 139, <<"C","o","m","m","a","n","d">>, <<>>)),
                      <<BasicLit(38, 147, "STRING", <<"\"","l","s","\"">>),
                        Ident(39, 153, <<"n","a","m","e">>, <<105>>)>>),
                    Ident(40, 159, <<"R","u","n">>, <<>>)),
                  <<>>))>>))>>,
      <<ImportSpec(4, 25,
          <<>>,
          BasicLit(5, 25, "STRING", <<"\"","n","e","t","/","h","t","t","p","\"">>)),
        ImportSpec(6, 37,
          <<>>,
          BasicLit(7, 37, "STRING", <<"\"","o","s","/","e","x","e","c","\"">>))>>,
      <<0, 13, 14, 23, 35, 46, 48, 49, 103, 132, 164>>)

(* hash.go
    1  package main
    2  
    3  import (
    4      "crypto/md5"
    5      "golang.org/x/crypto/bcrypt"
    6  )
    7  
    8  func digest(password []byte) {
    9      h := md5.New()
   10      h.Write(password)
   11      bcrypt.GenerateFromPassword(password, 4)
   12  }
*)
Tree_hash ==
    File(1, 1,
      Ident(2, 9, <<"m","a","i","n">>, <<>>),
      <<GenDecl(3, 15,
          "import",
          <<ImportSpec(4, 25,
              <<>>,
              BasicLit(5, 25, "STRING", <<"\"","c","r","y","p","t","o","/","m","d","5","\"">>)),
            ImportSpec(6, 39,
              <<>>,
              BasicLit(7, 39, "STRING", <<"\"","g","o","l","a","n","g",".","o","r","g","/","x","/","c","r","y","p","t","o","/","b","c","r","y","p","t","\"">>))>>),
        FuncDecl(8, 71,
          Ident(9, 76, <<"d","i","g","e","s","t">>, <<76>>),
          FuncType(10, 71,
            FieldList(11, 82,
              <<Field(12, 83,
                  <<Ident(13, 83, <<"p","a","s","s","w","o","r","d">>, <<83>>)>>,
                  ArrayType(14, 92,
                    Ident(15, 94, <<"b","y","t","e">>, <<>>)))>>),
            <<>>),
          BlockStmt(16, 100,
            <<AssignStmt(17, 103,
                <<Ident(18, 103, <<"h">>, <<103>>)>>,
                "DEFINE",
                <<CallExpr(19, 108,
                    SelectorExpr(20, 108,
                      Ident(21, 108, <<"m","d","5">>, <<>>),
                      Ident(22, 112, <<"N","e","w">>, <<>>)),
                    <<>>)>>),
              ExprStmt(23, 119,
                CallExpr(24, 119,
                  SelectorExpr(25, 119,
                    Ident(26, 119, <<"h">>, <<103>>),
                    Ident(27, 121, <<"W","r","i","t","e">>, <<>>)),
                  <<Ident(28, 127, <<"p","a","s","s","w","o","r","d">>, <<83>>)>>)),
              ExprStmt(29, 138,
                CallExpr(30, 138,
                  SelectorExpr(31, 138,
                    Ident(32, 138, <<"b","c","r","y","p","t">>, <<>>),
                    Ident(33, 145, <<"G","e","n","e","r","a","t","e","F","r","o","m","P","a","s","s","w","o","r","d">>, <<>>)),
                  <<Ident(34, 166, <<"p","a","s","s","w","o","r","d">>, <<83>>),
                    BasicLit(35, 176, "INT", <<"4">>)>>))>>))>>,
      <<ImportSpec(4, 25,
          <<>>,
          BasicLit(5, 25, "STRING", <<"\"","c","r","y","p","t","o","/","m","d","5","\"">>)),
        ImportSpec(6, 39,
          <<>>,
          BasicLit(7, 39, "STRING", <<"\"","g","o","l","a","n","g",".","o","r","g","/","x","/","c","r","y","p","t","o","/","b","c","r","y","p","t","\"">>))>>,
      <<0, 13, 14, 23, 37, 67, 69, 70, 101, 117, 136, 178>>)

(* load.go
    1  package main
    2  
    3  import "os"
    4  
    5  func load(name string) error {
    6      f, err := os.Open(name)
    7      if err != nil {
    8          return err
    9      }
   10      f.Close()
   11      return nil
   12  }
*)
Tree_load ==
    File(1, 1,
      Ident(2, 9, <<"m","a","i","n">>, <<>>),
      <<GenDecl(3, 15,
          "import",
          <<ImportSpec(4, 22,
              <<>>,
              BasicLit(5, 22, "STRING", <<"\"","o","s","\"">>))>>),
        FuncDecl(6, 28,
          Ident(7, 33, <<"l","o","a","d">>, <<33>>),
          FuncType(8, 28,
            FieldList(9, 37,
              <<Field(10, 38,
                  <<Ident(11, 38, <<"n","a","m","e">>, <<38>>)>>,
                  Ident(12, 43, <<"s","t","r","i","n","g">>, <<>>))>>),
            <<FieldList(13, 51,
                <<Field(14, 51,
                    <<>>,
                    Ident(15, 51, <<"e","r","r","o","r">>, <<>>))>>)>>),
          BlockStmt(16, 57,
            <<AssignStmt(17, 60,
                <<Ident(18, 60, <<"f">>, <<60>>),
                  Ident(19, 63, <<"e","r","r">>, <<63>>)>>,
                "DEFINE",
                <<CallExpr(20, 70,
                    SelectorExpr(21, 70,
                      Ident(22, 70, <<"o","s">>, <<>>),
                      Ident(23, 73, <<"O","p","e","n">>, <<>>)),
                    <<Ident(24, 78, <<"n","a","m","e">>, <<38>>)>>)>>),
              IfStmt(25, 85,
                <<>>,
                BinaryExpr(26, 88,
                  Ident(27, 88, <<"e","r","r">>, <<63>>),
                  "!=",
                  Ident(28, 95, <<"n","i","l">>, <<>>)),
                BlockStmt(29, 99,
                  <<ReturnStmt(30, 103,
                      <<Ident(31, 110, <<"e","r","r">>, <<63>>)>>)>>),
                <<>>),
              ExprStmt(32, 118,
                CallExpr(33, 118,
                  SelectorExpr(34, 118,
                    Ident(35, 118, <<"f">>, <<60>>),
                    Ident(36, 120, <<"C","l","o","s","e">>, <<>>)),
                  <<>>)),
              ReturnStmt(37, 129,
                <<Ident(38, 136, <<"n","i","l">>, <<>>)>>)>>))>>,
      <<ImportSpec(4, 22,
          <<>>,
          BasicLit(5, 22, "STRING", <<"\"","o","s","\"">>))>>,
      <<0, 13, 14, 26, 27, 58, 83, 100, 113, 116, 127, 139>>)

(* offline.go
    1  package main
    2  
    3  import (
    4      "os"
    5      "os/exec"
    6  )
    7  
    8  func handle(r request) {
    9      name := r.FormValue("name")
   10      os.Open(name)
   11      exec.Command("sh", "-c", r.URL.Path)
   12  }
*)
Tree_offline ==
    File(1, 1,
      Ident(2, 9, <<"m","a","i","n">>, <<>>),
      <<GenDecl(3, 15,
          "import",
          <<ImportSpec(4, 25,
              <<>>,
              BasicLit(5, 25, "STRING", <<"\"","o","s","\"">>)),
            ImportSpec(6, 31,
              <<>>,
              BasicLit(7, 31, "STRING", <<"\"","o","s","/","e","x","e","c","\"">>))>>),
        FuncDecl(8, 44,
          Ident(9, 49, <<"h","a","n","d","l","e">>, <<49>>),
          FuncType(10, 44,
            FieldList(11, 55,
              <<Field(12, 56,
                  <<Ident(13, 56, <<"r">>, <<56>>)>>,
                  Ident(14, 58, <<"r","e","q","u","e","s","t">>, <<>>))>>),
            <<>>),
          BlockStmt(15, 67,
            <<AssignStmt(16, 70,
                <<Ident(17, 70, <<"n","a","m","e">>, <<70>>)>>,
                "DEFINE",
                <<CallExpr(18, 78,
                    SelectorExpr(19, 78,
                      Ident(20, 78, <<"r">>, <<56>>),
                      Ident(21, 80, <<"F","o","r","m","V","a","l","u","e">>, <<>>)),
                    <<BasicLit(22, 90, "STRING", <<"\"","n","a","m","e","\"">>)>>)>>),
              ExprStmt(23, 99,
                CallExpr(24, 99,
                  SelectorExpr(25, 99,
                    Ident(26, 99, <<"o","s">>, <<>>),
                    Ident(27, 102, <<"O","p","e","n">>, <<>>)),
                  <<Ident(28, 107, <<"n","a","m","e">>, <<70>>)>>)),
              ExprStmt(29, 114,
                CallExpr(30, 114,
                  SelectorExpr(31, 114,
                    Ident(32, 114, <<"e","x","e","c">>, <<>>),
                    Ident(33, 119, <<"C","o","m","m","a","n","d">>, <<>>)),
                  <<BasicLit(34, 127, "STRING", <<"\"","s","h","\"">>),
                    BasicLit(35, 133, "STRING", <<"\"","-","c","\"">>),
                    SelectorExpr(36, 139,
                      SelectorExpr(37, 139,
                        Ident(38, 139, <<"r">>, <<56>>),
                        Ident(39, 141, <<"U","R","L">>, <<>>)),
                      Ident(40, 145, <<"P","a","t","h">>, <<>>))>>))>>))>>,
      <<ImportSpec(4, 25,
          <<>>,
          BasicLit(5, 25, "STRING", <<"\"","o","s","\"">>)),
        ImportSpec(6, 31,
          <<>>,
          BasicLit(7, 31, "STRING", <<"\"","o","s","/","e","x","e","c","\"">>))>>,
      <<0, 13, 14, 23, 29, 40, 42, 43, 68, 97, 112, 150>>)

(* queries.go
    1  package main
    2  
    3  import (
    4      "context"
    5      "database/sql"
    6      "fmt"
    7  )
    8  
    9  func run(ctx context.Context, db *sql.DB, q stored, query string, name string, id int) {
   10      db.Query("SELECT * FROM users")
   11      db.Query(query)
   12      db.QueryRow("SELECT * FROM users WHERE name = '" + name + "'")
   13      db.Exec(fmt.Sprintf("DELETE FROM users WHERE name = '%s'", name))
   14      db.Exec(fmt.Sprintf("DELETE FROM users WHERE id = %d", id))
   15      db.Prepare(fmt.Sprintf("SELECT * FROM users"))
   16      db.Query(fmt.Sprintf("SELECT %v FROM users WHERE ok = %t AND name = '%s'", name, id, name))
   17      db.Query(fmt.Sprintf("SELECT %v FROM users WHERE ok = %t", name, id))
   18      db.QueryContext(ctx, query)
   19      db.ExecContext(ctx, "DELETE FROM users")
   20      db.QueryRowContext(ctx, query, id)
   21      db.PrepareContext(ctx, "SELECT * FROM users WHERE id = ?")
   22      db.Query(q.text)
   23      db.Query(buildQuery(name))
   24      db.Exec(q.String())
   25      db.Query(fmt.Sprintf(query, name))
   26      db.Ping()
   27      fmt.Println(query)
   28  }
*)
Tree_queries ==
    File(1, 1,
      Ident(2, 9, <<"m","a","i","n">>, <<>>),
      <<GenDecl(3, 15,
          "import",
          <<ImportSpec(4, 25,
              <<>>,
              BasicLit(5, 25, "STRING", <<"\"","c","o","n","t","e","x","t","\"">>)),
            ImportSpec(6, 36,
              <<>>,
              BasicLit(7, 36, "STRING", <<"\"","d","a","t","a","b","a","s","e","/","s","q","l","\"">>)),
            ImportSpec(8, 52,
              <<>>,
              BasicLit(9, 52, "STRING", <<"\"","f","m","t","\"">>))>>),
        FuncDecl(10, 61,
          Ident(11, 66, <<"r","u","n">>, <<66>>),
          FuncType(12, 61,
            FieldList(13, 69,
              <<Field(14, 70,
                  <<Ident(15, 70, <<"c","t","x">>, <<70>>)>>,
                  SelectorExpr(16, 74,
                    Ident(17, 74, <<"c","o","n","t","e","x","t">>, <<>>),
                    Ident(18, 82, <<"C","o","n","t","e","x","t">>, <<>>))),
                Field(19, 91,
                  <<Ident(20, 91, <<"d","b">>, <<91>>)>>,
                  StarExpr(21, 94,
                    SelectorExpr(22, 95,
                      Ident(23, 95, <<"s","q","l">>, <<>>),
                      Ident(24, 99, <<"D","B">>, <<>>)))),
                Field(25, 103,
                  <<Ident(26, 103, <<"q">>, <<103>>)>>,
                  Ident(27, 105, <<"s","t","o","r","e","d">>, <<>>)),
                Field(28, 113,
                  <<Ident(29, 113, <<"q","u","e","r","y">>, <<113>>)>>,
                  Ident(30, 119, <<"s","t","r","i","n","g">>, <<>>)),
                Field(31, 127,
                  <<Ident(32, 127, <<"n","a","m","e">>, <<127>>)>>,
                  Ident(33, 132, <<"s","t","r","i","n","g">>, <<>>)),
                Field(34, 140,
                  <<Ident(35, 140, <<"i","d">>, <<140>>)>>,
                  Ident(36, 143, <<"i","n","t">>, <<>>))>>),
            <<>>),
          BlockStmt(37, 148,
            <<ExprStmt(38, 151,
                CallExpr(39, 151,
                  SelectorExpr(40, 151,
                    Ident(41, 151, <<"d","b">>, <<91>>),
                    Ident(42, 154, <<"Q","u","e","r","y">>, <<>>)),
                  <<BasicLit(43, 160, "STRING", <<"\"","S","E","L","E","C","T"," ","*"," ","F","R","O","M"," ","u","s","e","r","s","\"">>)>>)),
              ExprStmt(44, 184,
                CallExpr(45, 184,
                  SelectorExpr(46, 184,
                    Ident(47, 184, <<"d","b">>, <<91>>),
                    Ident(48, 187, <<"Q","u","e","r","y">>, <<>>)),
                  <<Ident(49, 193, <<"q","u","e","r","y">>, <<113>>)>>)),
              ExprStmt(50, 201,
                CallExpr(51, 201,
                  SelectorExpr(52, 201,
                    Ident(53, 201, <<"d","b">>, <<91>>),
                    Ident(54, 204, <<"Q","u","e","r","y","R","o","w">>, <<>>)),
                  <<BinaryExpr(55, 213,
                      BinaryExpr(56, 213,
                        BasicLit(57, 213, "STRING", <<"\"","S","E","L","E","C","T"," ","*"," ","F","R","O","M"," ","u","s","e","r","s"," ","W","H","E","R","E"," ","n","a","m","e"," ","="," ","'","\"">>),
                        "+",
                        Ident(58, 252, <<"n","a","m","e">>, <<127>>)),
                      "+",
                      BasicLit(59, 259, "STRING", <<"\"","'","\"">>))>>)),
              ExprStmt(60, 265,
                CallExpr(61, 265,
                  SelectorExpr(62, 265,
                    Ident(63, 265, <<"d","b">>, <<91>>),
                    Ident(64, 268, <<"E","x","e","c">>, <<>>)),
                  <<CallExpr(65, 273,
                      SelectorExpr(66, 273,
                        Ident(67, 273, <<"f","m","t">>, <<>>),
                        Ident(68, 277, <<"S","p","r","i","n","t","f">>, <<>>)),
                      <<BasicLit(69, 285, "STRING", <<"\"","D","E","L","E","T","E"," ","F","R","O","M"," ","u","s","e","r","s"," ","W","H","E","R","E"," ","n","a","m","e"," ","="," ","'","%","s","'","\"">>),
                        Ident(70, 324, <<"n","a","m","e">>, <<127>>)>>)>>)),
              ExprStmt(71, 332,
                CallExpr(72, 332,
                  SelectorExpr(73, 332,
                    Ident(74, 332, <<"d","b">>, <<91>>),
                    Ident(75, 335, <<"E","x","e","c">>, <<>>)),
                  <<CallExpr(76, 340,
                      SelectorExpr(77, 340,
                        Ident(78, 340, <<"f","m","t">>, <<>>),
                        Ident(79, 344, <<"S","p","r","i","n","t","f">>, <<>>)),
                      <<BasicLit(80, 352, "STRING", <<"\"","D","E","L","E","T","E"," ","F","R","O","M"," ","u","s","e","r","s"," ","W","H","E","R","E"," ","i","d"," ","="," ","%","d","\"">>),
                        Ident(81, 387, <<"i","d">>, <<140>>)>>)>>)),
              ExprStmt(82, 393,
                CallExpr(83, 393,
                  SelectorExpr(84, 393,
                    Ident(85, 393, <<"d","b">>, <<91>>),
                    Ident(86, 396, <<"P","r","e","p","a","r","e">>, <<>>)),
                  <<CallExpr(87, 404,
                      SelectorExpr(88, 404,
                        Ident(89, 404, <<"f","m","t">>, <<>>),
                        Ident(90, 408, <<"S","p","r","i","n","t","f">>, <<>>)),
                      <<BasicLit(91, 416, "STRING", <<"\"","S","E","L","E","C","T"," ","*"," ","F","R","O","M"," ","u","s","e","r","s","\"">>)>>)>>)),
              ExprStmt(92, 441,
                CallExpr(93, 441,
                  SelectorExpr(94, 441,
                    Ident(95, 441, <<"d","b">>, <<91>>),
                    Ident(96, 444, <<"Q","u","e","r","y">>, <<>>)),
                  <<CallExpr(97, 450,
                      SelectorExpr(98, 450,
                        Ident(99, 450, <<"f","m","t">>, <<>>),
                        Ident(100, 454, <<"S","p","r","i","n","t","f">>, <<>>)),
                      <<BasicLit(101, 462, "STRING", <<"\"","S","E","L","E","C","T"," ","%","v"," ","F","R","O","M"," ","u","s","e","r","s"," ","W","H","E","R","E"," ","o","k"," ","="," ","%","t"," ","A","N","D"," ","n","a","m","e"," ","="," ","'","%","s","'","\"">>),
                        Ident(102, 516, <<"n","a","m","e">>, <<127>>),
                        Ident(103, 522, <<"i","d">>, <<140>>),
                        Ident(104, 526, <<"n","a","m","e">>, <<127>>)>>)>>)),
              ExprStmt(105, 534,
                CallExpr(106, 534,
                  SelectorExpr(107, 534,
                    Ident(108, 534, <<"d","b">>, <<91>>),
                    Ident(109, 537, <<"Q","u","e","r","y">>, <<>>)),
                  <<CallExpr(110, 543,
                      SelectorExpr(111, 543,
                        Ident(112, 543, <<"f","m","t">>, <<>>),
                        Ident(113, 547, <<"S","p","r","i","n","t","f">>, <<>>)),
                      <<BasicLit(114, 555, "STRING", <<"\"","S","E","L","E","C","T"," ","%","v"," ","F","R","O","M"," ","u","s","e","r","s"," ","W","H","E","R","E"," ","o","k"," ","="," ","%","t","\"">>),
                        Ident(115, 593, <<"n","a","m","e">>, <<127>>),
                        Ident(116, 599, <<"i","d">>, <<140>>)>>)>>)),
              ExprStmt(117, 605,
                CallExpr(118, 605,
                  SelectorExpr(119, 605,
                    Ident(120, 605, <<"d","b">>, <<91>>),
                    Ident(121, 608, <<"Q","u","e","r","y","C","o","n","t","e","x","t">>, <<>>)),
                  <<Ident(122, 621, <<"c","t","x">>, <<70>>),
                    Ident(123, 626, <<"q","u","e","r","y">>, <<113>>)>>)),
              ExprStmt(124, 634,
                CallExpr(125, 634,
                  SelectorExpr(126, 634,
                    Ident(127, 634, <<"d","b">>, <<91>>),
                    Ident(128, 637, <<"E","x","e","c","C","o","n","t","e","x","t">>, <<>>)),
                  <<Ident(129, 649, <<"c","t","x">>, <<70>>),
                    BasicLit(130, 654, "STRING", <<"\"","D","E","L","E","T","E"," ","F","R","O","M"," ","u","s","e","r","s","\"">>)>>)),
              ExprStmt(131, 676,
                CallExpr(132, 676,
                  SelectorExpr(133, 676,
                    Ident(134, 676, <<"d","b">>, <<91>>),
                    Ident(135, 679, <<"Q","u","e","r","y","R","o","w","C","o","n","t","e","x","t">>, <<>>)),
                  <<Ident(136, 695, <<"c","t","x">>, <<70>>),
                    Ident(137, 700, <<"q","u","e","r","y">>, <<113>>),
                    Ident(138, 707, <<"i","d">>, <<140>>)>>)),
              ExprStmt(139, 712,
                CallExpr(140, 712,
                  SelectorExpr(141, 712,
                    Ident(142, 712, <<"d","b">>, <<91>>),
                    Ident(143, 715, <<"P","r","e","p","a","r","e","C","o","n","t","e","x","t">>, <<>>)),
                  <<Ident(144, 730, <<"c","t","x">>, <<70>>),
                    BasicLit(145, 735, "STRING", <<"\"","S","E","L","E","C","T"," ","*"," ","F","R","O","M"," ","u","s","e","r","s"," ","W","H","E","R","E"," ","i","d"," ","="," ","?","\"">>)>>)),
              ExprStmt(146, 772,
                CallExpr(147, 772,
                  SelectorExpr(148, 772,
                    Ident(149, 772, <<"d","b">>, <<91>>),
                    Ident(150, 775, <<"Q","u","e","r","y">>, <<>>)),
                  <<SelectorExpr(151, 781,
                      Ident(152, 781, <<"q">>, <<103>>),
                      Ident(153, 783, <<"t","e","x","t">>, <<>>))>>)),
              ExprStmt(154, 790,
                CallExpr(155, 790,
                  SelectorExpr(156, 790,
                    Ident(157, 790, <<"d","b">>, <<91>>),
                    Ident(158, 793, <<"Q","u","e","r","y">>, <<>>)),
                  <<CallExpr(159, 799,
                      Ident(160, 799, <<"b","u","i","l","d","Q","u","e","r","y">>, <<>>),
                      <<Ident(161, 810, <<"n","a","m","e">>, <<127>>)>>)>>)),
              ExprStmt(162, 818,
                CallExpr(163, 818,
                  SelectorExpr(164, 818,
                    Ident(165, 818, <<"d","b">>, <<91>>),
                    Ident(166, 821, <<"E","x","e","c">>, <<>>)),
                  <<CallExpr(167, 826,
                      SelectorExpr(168, 826,
                        Ident(169, 826, <<"q">>, <<103>>),
                        Ident(170, 828, <<"S","t","r","i","n","g">>, <<>>)),
                      <<>>)>>)),
              ExprStmt(171, 839,
                CallExpr(172, 839,
                  SelectorExpr(173, 839,
                    Ident(174, 839, <<"d","b">>, <<91>>),
                    Ident(175, 842, <<"Q","u","e","r","y">>, <<>>)),
                  <<CallExpr(176, 848,
                      SelectorExpr(177, 848,
                        Ident(178, 848, <<"f","m","t">>, <<>>),
                        Ident(179, 852, <<"S","p","r","i","n","t","f">>, <<>>)),
                      <<Ident(180, 860, <<"q","u","e","r","y">>, <<113>>),
                        Ident(181, 867, <<"n","a","m","e">>, <<127>>)>>)>>)),
              ExprStmt(182, 875,
                CallExpr(183, 875,
                  SelectorExpr(184, 875,
                    Ident(185, 875, <<"d","b">>, <<91>>),
                    Ident(186, 878, <<"P","i","n","g">>, <<>>)),
                  <<>>)),
              ExprStmt(187, 886,
                CallExpr(188, 886,
                  SelectorExpr(189, 886,
                    Ident(190, 886, <<"f","m","t">>, <<>>),
                    Ident(191, 890, <<"P","r","i","n","t","l","n">>, <<>>)),
                  <<Ident(192, 898, <<"q","u","e","r","y">>, <<113>>)>>))>>))>>,
      <<ImportSpec(4, 25,
          <<>>,
          BasicLit(5, 25, "STRING", <<"\"","c","o","n","t","e","x","t","\"">>)),
        ImportSpec(6, 36,
          <<>>,
          BasicLit(7, 36, "STRING", <<"\"","d","a","t","a","b","a","s","e","/","s","q","l","\"">>)),
        ImportSpec(8, 52,
          <<>>,
          BasicLit(9, 52, "STRING", <<"\"","f","m","t","\"">>))>>,
      <<0, 13, 14, 23, 34, 50, 57, 59, 60, 149, 182, 199, 263, 330, 391, 439, 532, 603, 632, 674, 710, 770, 788, 816, 837, 873, 884, 904>>)

(* reassign.go
    1  package main
    2  
    3  import (
    4      "io/ioutil"
    5      "log"
    6      "os"
    7  )
    8  
    9  func checkedBefore(a string, b string) {
   10      f, err := os.Open(a)
   11      if err != nil {
   12          return
   13      }
   14      g, err := os.Create(b)
   15      _, err = g.Write(nil)
   16      f.Sync()
   17  }
   18  
   19  func checkedAfter(a string, b string) {
   20      f, err := os.Open(a)
   21      g, err := os.Create(b)
   22      if err != nil {
   23          return
   24      }
   25      f.Sync()
   26      g.Sync()
   27  }
   28  
   29  func loggedAfter(a string) {
   30      data, err := ioutil.ReadFile(a)
   31      _, err = os.Open(a)
   32      log.Printf("%v", err)
   33  }
   34  
   35  func returnedAfter(a string) error {
   36      f, err := os.Open(a)
   37      _, err = ioutil.ReadAll(f)
   38      return err
   39  }
   40  
   41  func neverChecked(a string) {
   42      f, err := os.Open(a)
   43      _, err = ioutil.ReadAll(f)
   44  }
   45  
   46  func shadowed(a string) {
   47      f, err := os.Open(a)
   48      if err != nil {
   49          return
   50      }
   51      if a != "" {
   52          data, err := ioutil.ReadAll(f)
   53          f.Sync()
   54      }
   55  }
*)
Tree_reassign ==
    File(1, 1,
      Ident(2, 9, <<"m","a","i","n">>, <<>>),
      <<GenDecl(3, 15,
          "import",
          <<ImportSpec(4, 25,
              <<>>,
              BasicLit(5, 25, "STRING", <<"\"","i","o","/","i","o","u","t","i","l","\"">>)),
            ImportSpec(6, 38,
              <<>>,
              BasicLit(7, 38, "STRING", <<"\"","l","o","g","\"">>)),
            ImportSpec(8, 45,
              <<>>,
              BasicLit(9, 45, "STRING", <<"\"","o","s","\"">>))>>),
        FuncDecl(10, 53,
          Ident(11, 58, <<"c","h","e","c","k","e","d","B","e","f","o","r","e">>, <<58>>),
          FuncType(12, 53,
            FieldList(13, 71,
              <<Field(14, 72,
                  <<Ident(15, 72, <<"a">>, <<72>>)>>,
                  Ident(16, 74, <<"s","t","r","i","n","g">>, <<>>)),
                Field(17, 82,
                  <<Ident(18, 82, <<"b">>, <<82>>)>>,
                  Ident(19, 84, <<"s","t","r","i","n","g">>, <<>>))>>),
            <<>>),
          BlockStmt(20, 92,
            <<AssignStmt(21, 95,
                <<Ident(22, 95, <<"f">>, <<95>>),
                  Ident(23, 98, <<"e","r","r">>, <<98>>)>>,
                "DEFINE",
                <<CallExpr(24, 105,
                    SelectorExpr(25, 105,
                      Ident(26, 105, <<"o","s">>, <<>>),
                      Ident(27, 108, <<"O","p","e","n">>, <<>>)),
                    <<Ident(28, 113, <<"a">>, <<72>>)>>)>>),
              IfStmt(29, 117,
                <<>>,
                BinaryExpr(30, 120,
                  Ident(31, 120, <<"e","r","r">>, <<98>>),
                  "!=",
                  Ident(32, 127, <<"n","i","l">>, <<>>)),
                BlockStmt(33, 131,
                  <<ReturnStmt(34, 135,
                      <<>>)>>),
                <<>>),
              AssignStmt(35, 146,
                <<Ident(36, 146, <<"g">>, <<146>>),
                  Ident(37, 149, <<"e","r","r">>, <<98>>)>>,
                "DEFINE",
                <<CallExpr(38, 156,
                    SelectorExpr(39, 156,
                      Ident(40, 156, <<"o","s">>, <<>>),
                      Ident(41, 159, <<"C","r","e","a","t","e">>, <<>>)),
                    <<Ident(42, 166, <<"b">>, <<82>>)>>)>>),
              AssignStmt(43, 170,
                <<Ident(44, 170, <<"_">>, <<>>),
                  Ident(45, 173, <<"e","r","r">>, <<98>>)>>,
                "ASSIGN",
                <<CallExpr(46, 179,
                    SelectorExpr(47, 179,
                      Ident(48, 179, <<"g">>, <<146>>),
                      Ident(49, 181, <<"W","r","i","t","e">>, <<>>)),
                    <<Ident(50, 187, <<"n","i","l">>, <<>>)>>)>>),
              ExprStmt(51, 193,
                CallExpr(52, 193,
                  SelectorExpr(53, 193,
                    Ident(54, 193, <<"f">>, <<95>>),
                    Ident(55, 195, <<"S","y","n","c">>, <<>>)),
                  <<>>))>>)),
        FuncDecl(56, 205,
          Ident(57, 210, <<"c","h","e","c","k","e","d","A","f","t","e","r">>, <<210>>),
          FuncType(58, 205,
            FieldList(59, 222,
              <<Field(60, 223,
                  <<Ident(61, 223, <<"a">>, <<223>>)>>,
                  Ident(62, 225, <<"s","t","r","i","n","g">>, <<>>)),
                Field(63, 233,
                  <<Ident(64, 233, <<"b">>, <<233>>)>>,
                  Ident(65, 235, <<"s","t","r","i","n","g">>, <<>>))>>),
            <<>>),
          BlockStmt(66, 243,
            <<AssignStmt(67, 246,
                <<Ident(68, 246, <<"f">>, <<246>>),
                  Ident(69, 249, <<"e","r","r">>, <<249>>)>>,
                "DEFINE",
                <<CallExpr(70, 256,
                    SelectorExpr(71, 256,
                      Ident(72, 256, <<"o","s">>, <<>>),
                      Ident(73, 259, <<"O","p","e","n">>, <<>>)),
                    <<Ident(74, 264, <<"a">>, <<223>>)>>)>>),
              AssignStmt(75, 268,
                <<Ident(76, 268, <<"g">>, <<268>>),
                  Ident(77, 271, <<"e","r","r">>, <<249>>)>>,
                "DEFINE",
                <<CallExpr(78, 278,
                    SelectorExpr(79, 278,
                      Ident(80, 278, <<"o","s">>, <<>>),
                      Ident(81, 281, <<"C","r","e","a","t","e">>, <<>>)),
                    <<Ident(82, 288, <<"b">>, <<233>>)>>)>>),
              IfStmt(83, 292,
                <<>>,
                BinaryExpr(84, 295,
                  Ident(85, 295, <<"e","r","r">>, <<249>>),
                  "!=",
                  Ident(86, 302, <<"n","i","l">>, <<>>)),
                BlockStmt(87, 306,
                  <<ReturnStmt(88, 310,
                      <<>>)>>),
                <<>>),
              ExprStmt(89, 321,
                CallExpr(90, 321,
                  SelectorExpr(91, 321,
                    Ident(92, 321, <<"f">>, <<246>>),
                    Ident(93, 323, <<"S","y","n","c">>, <<>>)),
                  <<>>)),
              ExprStmt(94, 331,
                CallExpr(95, 331,
                  SelectorExpr(96, 331,
                    Ident(97, 331, <<"g">>, <<268>>),
                    Ident(98, 333, <<"S","y","n","c">>, <<>>)),
                  <<>>))>>)),
        FuncDecl(99, 343,
          Ident(100, 348, <<"l","o","g","g","e","d","A","f","t","e","r">>, <<348>>),
          FuncType(101, 343,
            FieldList(102, 359,
              <<Field(103, 360,
                  <<Ident(104, 360, <<"a">>, <<360>>)>>,
                  Ident(105, 362, <<"s","t","r","i","n","g">>, <<>>))>>),
            <<>>),
          BlockStmt(106, 370,
            <<AssignStmt(107, 373,
                <<Ident(108, 373, <<"d","a","t","a">>, <<373>>),
                  Ident(109, 379, <<"e","r","r">>, <<379>>)>>,
                "DEFINE",
                <<CallExpr(110, 386,
                    SelectorExpr(111, 386,
                      Ident(112, 386, <<"i","o","u","t","i","l">>, <<>>),
                      Ident(113, 393, <<"R","e","a","d","F","i","l","e">>, <<>>)),
                    <<Ident(114, 402, <<"a">>, <<360>>)>>)>>),
              AssignStmt(115, 406,
                <<Ident(116, 406, <<"_">>, <<>>),
                  Ident(117, 409, <<"e","r","r">>, <<379>>)>>,
                "ASSIGN",
                <<CallExpr(118, 415,
                    SelectorExpr(119, 415,
                      Ident(120, 415, <<"o","s">>, <<>>),
                      Ident(121, 418, <<"O","p","e","n">>, <<>>)),
                    <<Ident(122, 423, <<"a">>, <<360>>)>>)>>),
              ExprStmt(123, 427,
                CallExpr(124, 427,
                  SelectorExpr(125, 427,
                    Ident(126, 427, <<"l","o","g">>, <<>>),
                    Ident(127, 431, <<"P","r","i","n","t","f">>, <<>>)),
                  <<BasicLit(128, 438, "STRING", <<"\"","%","v","\"">>),
                    Ident(129, 444, <<"e","r","r">>, <<379>>)>>))>>)),
        FuncDecl(130, 452,
          Ident(131, 457, <<"r","e","t","u","r","n","e","d","A","f","t","e","r">>, <<457>>),
          FuncType(132, 452,
            FieldList(133, 470,
              <<Field(134, 471,
                  <<Ident(135, 471, <<"a">>, <<471>>)>>,
                  Ident(136, 473, <<"s","t","r","i","n","g">>, <<>>))>>),
            <<FieldList(137, 481,
                <<Field(138, 481,
                    <<>>,
                    Ident(139, 481, <<"e","r","r","o","r">>, <<>>))>>)>>),
          BlockStmt(140, 487,
            <<AssignStmt(141, 490,
                <<Ident(142, 490, <<"f">>, <<490>>),
                  Ident(143, 493, <<"e","r","r">>, <<493>>)>>,
                "DEFINE",
                <<CallExpr(144, 500,
                    SelectorExpr(145, 500,
                      Ident(146, 500, <<"o","s">>, <<>>),
                      Ident(147, 503, <<"O","p","e","n">>, <<>>)),
                    <<Ident(148, 508, <<"a">>, <<471>>)>>)>>),
              AssignStmt(149, 512,
                <<Ident(150, 512, <<"_">>, <<>>),
                  Ident(151, 515, <<"e","r","r">>, <<493>>)>>,
                "ASSIGN",
                <<CallExpr(152, 521,
                    SelectorExpr(153, 521,
                      Ident(154, 521, <<"i","o","u","t","i","l">>, <<>>),
                      Ident(155, 528, <<"R","e","a","d","A","l","l">>, <<>>)),
                    <<Ident(156, 536, <<"f">>, <<490>>)>>)>>),
              ReturnStmt(157, 540,
                <<Ident(158, 547, <<"e","r","r">>, <<493>>)>>)>>)),
        FuncDecl(159, 554,
          Ident(160, 559, <<"n","e","v","e","r","C","h","e","c","k","e","d">>, <<559>>),
          FuncType(161, 554,
            FieldList(162, 571,
              <<Field(163, 572,
                  <<Ident(164, 572, <<"a">>, <<572>>)>>,
                  Ident(165, 574, <<"s","t","r","i","n","g">>, <<>>))>>),
            <<>>),
          BlockStmt(166, 582,
            <<AssignStmt(167, 585,
                <<Ident(168, 585, <<"f">>, <<585>>),
                  Ident(169, 588, <<"e","r","r">>, <<588>>)>>,
                "DEFINE",
                <<CallExpr(170, 595,
                    SelectorExpr(171, 595,
                      Ident(172, 595, <<"o","s">>, <<>>),
                      Ident(173, 598, <<"O","p","e","n">>, <<>>)),
                    <<Ident(174, 603, <<"a">>, <<572>>)>>)>>),
              AssignStmt(175, 607,
                <<Ident(176, 607, <<"_">>, <<>>),
                  Ident(177, 610, <<"e","r","r">>, <<588>>)>>,
                "ASSIGN",
                <<CallExpr(178, 616,
                    SelectorExpr(179, 616,
                      Ident(180, 616, <<"i","o","u","t","i","l">>, <<>>),
                      Ident(181, 623, <<"R","e","a","d","A","l","l">>, <<>>)),
                    <<Ident(182, 631, <<"f">>, <<585>>)>>)>>)>>)),
        FuncDecl(183, 637,
          Ident(184, 642, <<"s","h","a","d","o","w","e","d">>, <<642>>),
          FuncType(185, 637,
            FieldList(186, 650,
              <<Field(187, 651,
                  <<Ident(188, 651, <<"a">>, <<651>>)>>,
                  Ident(189, 653, <<"s","t","r","i","n","g">>, <<>>))>>),
            <<>>),
          BlockStmt(190, 661,
            <<AssignStmt(191, 664,
                <<Ident(192, 664, <<"f">>, <<664>>),
                  Ident(193, 667, <<"e","r","r">>, <<667>>)>>,
                "DEFINE",
                <<CallExpr(194, 674,
                    SelectorExpr(195, 674,
                      Ident(196, 674, <<"o","s">>, <<>>),
                      Ident(197, 677, <<"O","p","e","n">>, <<>>)),
                    <<Ident(198, 682, <<"a">>, <<651>>)>>)>>),
              IfStmt(199, 686,
                <<>>,
                BinaryExpr(200, 689,
                  Ident(201, 689, <<"e","r","r">>, <<667>>),
                  "!=",
                  Ident(202, 696, <<"n","i","l">>, <<>>)),
                BlockStmt(203, 700,
                  <<ReturnStmt(204, 704,
                      <<>>)>>),
                <<>>),
              IfStmt(205, 715,
                <<>>,
                BinaryExpr(206, 718,
                  Ident(207, 718, <<"a">>, <<651>>),
                  "!=",
                  BasicLit(208, 723, "STRING", <<"\"","\"">>)),
                BlockStmt(209, 726,
                  <<AssignStmt(210, 730,
                      <<Ident(211, 730, <<"d","a","t","a">>, <<730>>),
                        Ident(212, 736, <<"e","r","r">>, <<736>>)>>,
                      "DEFINE",
                      <<CallExpr(213, 743,
                          SelectorExpr(214, 743,
                            Ident(215, 743, <<"i","o","u","t","i","l">>, <<>>),
                            Ident(216, 750, <<"R","e","a","d","A","l","l">>, <<>>)),
                          <<Ident(217, 758, <<"f">>, <<664>>)>>)>>),
                    ExprStmt(218, 763,
                      CallExpr(219, 763,
                        SelectorExpr(220, 763,
                          Ident(221, 763, <<"f">>, <<664>>),
                          Ident(222, 765, <<"S","y","n","c">>, <<>>)),
                        <<>>))>>),
                <<>>)>>))>>,
      <<ImportSpec(4, 25,
          <<>>,
          BasicLit(5, 25, "STRING", <<"\"","i","o","/","i","o","u","t","i","l","\"">>)),
        ImportSpec(6, 38,
          <<>>,
          BasicLit(7, 38, "STRING", <<"\"","l","o","g","\"">>)),
        ImportSpec(8, 45,
          <<>>,
          BasicLit(9, 45, "STRING", <<"\"","o","s","\"">>))>>,
      <<0, 13, 14, 23, 36, 43, 49, 51, 52, 93, 115, 132, 141, 144, 168, 191, 201, 203, 204, 244, 266, 290, 307, 316, 319, 329, 339, 341, 342, 371, 404, 425, 448, 450, 451, 488, 510, 538, 550, 552, 553, 583, 605, 633, 635, 636, 662, 684, 701, 710, 713, 727, 760, 771, 774>>)

(* rev.go
    1  package main
    2  
    3  import "os"
    4  
    5  func load(name string) error {
    6      f, err := os.Open(name)
    7      if nil != err {
    8          return err
    9      }
   10      f.Close()
   11      return nil
   12  }
*)
Tree_rev ==
    File(1, 1,
      Ident(2, 9, <<"m","a","i","n">>, <<>>),
      <<GenDecl(3, 15,
          "import",
          <<ImportSpec(4, 22,
              <<>>,
              BasicLit(5, 22, "STRING", <<"\"","o","s","\"">>))>>),
        FuncDecl(6, 28,
          Ident(7, 33, <<"l","o","a","d">>, <<33>>),
          FuncType(8, 28,
            FieldList(9, 37,
              <<Field(10, 38,
                  <<Ident(11, 38, <<"n","a","m","e">>, <<38>>)>>,
                  Ident(12, 43, <<"s","t","r","i","n","g">>, <<>>))>>),
            <<FieldList(13, 51,
                <<Field(14, 51,
                    <<>>,
                    Ident(15, 51, <<"e","r","r","o","r">>, <<>>))>>)>>),
          BlockStmt(16, 57,
            <<AssignStmt(17, 60,
                <<Ident(18, 60, <<"f">>, <<60>>),
                  Ident(19, 63, <<"e","r","r">>, <<63>>)>>,
                "DEFINE",
                <<CallExpr(20, 70,
                    SelectorExpr(21, 70,
                      Ident(22, 70, <<"o","s">>, <<>>),
                      Ident(23, 73, <<"O","p","e","n">>, <<>>)),
                    <<Ident(24, 78, <<"n","a","m","e">>, <<38>>)>>)>>),
              IfStmt(25, 85,
                <<>>,
                BinaryExpr(26, 88,
                  Ident(27, 88, <<"n","i","l">>, <<>>),
                  "!=",
                  Ident(28, 95, <<"e","r","r">>, <<63>>)),
                BlockStmt(29, 99,
                  <<ReturnStmt(30, 103,
                      <<Ident(31, 110, <<"e","r","r">>, <<63>>)>>)>>),
                <<>>),
              ExprStmt(32, 118,
                CallExpr(33, 118,
                  SelectorExpr(34, 118,
                    Ident(35, 118, <<"f">>, <<60>>),
                    Ident(36, 120, <<"C","l","o","s","e">>, <<>>)),
                  <<>>)),
              ReturnStmt(37, 129,
                <<Ident(38, 136, <<"n","i","l">>, <<>>)>>)>>))>>,
      <<ImportSpec(4, 22,
          <<>>,
          BasicLit(5, 22, "STRING", <<"\"","o","s","\"">>))>>,
      <<0, 13, 14, 26, 27, 58, 83, 100, 113, 116, 127, 139>>)

(* rsakey.go
    1  package main
    2  
    3  import (
    4      "crypto/rand"
    5      "crypto/rsa"
    6  )
    7  
    8  var weak, _ = rsa.GenerateKey(rand.Reader, 1024)
    9  var strong, _ = rsa.GenerateKey(rand.Reader, 2048)
   10  
   11  func keys() {
   12      k, err := rsa.GenerateKey(rand.Reader, 512)
   13      if err != nil {
   14          return
   15      }
   16      _ = k
   17      var short, _ = rsa.GenerateKey(rand.Reader, 2047)
   18      _ = short
   19  }
*)
Tree_rsakey ==
    File(1, 1,
      Ident(2, 9, <<"m","a","i","n">>, <<>>),
      <<GenDecl(3, 15,
          "import",
          <<ImportSpec(4, 25,
              <<>>,
              BasicLit(5, 25, "STRING", <<"\"","c","r","y","p","t","o","/","r","a","n","d","\"">>)),
            ImportSpec(6, 40,
              <<>>,
              BasicLit(7, 40, "STRING", <<"\"","c","r","y","p","t","o","/","r","s","a","\"">>))>>),
        GenDecl(8, 56,
          "var",
          <<ValueSpec(9, 60,
              <<Ident(10, 60, <<"w","e","a","k">>, <<60>>),
                Ident(11, 66, <<"_">>, <<66>>)>>,
              <<>>,
              <<CallExpr(12, 70,
                  SelectorExpr(13, 70,
                    Ident(14, 70, <<"r","s","a">>, <<>>),
                    Ident(15, 74, <<"G","e","n","e","r","a","t","e","K","e","y">>, <<>>)),
                  <<SelectorExpr(16, 86,
                      Ident(17, 86, <<"r","a","n","d">>, <<>>),
                      Ident(18, 91, <<"R","e","a","d","e","r">>, <<>>)),
                    BasicLit(19, 99, "INT", <<"1","0","2","4">>)>>)>>)>>),
        GenDecl(20, 105,
          "var",
          <<ValueSpec(21, 109,
              <<Ident(22, 109, <<"s","t","r","o","n","g">>, <<109>>),
                Ident(23, 117, <<"_">>, <<117>>)>>,
              <<>>,
              <<CallExpr(24, 121,
                  SelectorExpr(25, 121,
                    Ident(26, 121, <<"r","s","a">>, <<>>),
                    Ident(27, 125, <<"G","e","n","e","r","a","t","e","K","e","y">>, <<>>)),
                  <<SelectorExpr(28, 137,
                      Ident(29, 137, <<"r","a","n","d">>, <<>>),
                      Ident(30, 142, <<"R","e","a","d","e","r">>, <<>>)),
                    BasicLit(31, 150, "INT", <<"2","0","4","8">>)>>)>>)>>),
        FuncDecl(32, 157,
          Ident(33, 162, <<"k","e","y","s">>, <<162>>),
          FuncType(34, 157,
            FieldList(35, 166,
              <<>>),
            <<>>),
          BlockStmt(36, 169,
            <<AssignStmt(37, 172,
                <<Ident(38, 172, <<"k">>, <<172>>),
                  Ident(39, 175, <<"e","r","r">>, <<175>>)>>,
                "DEFINE",
                <<CallExpr(40, 182,
                    SelectorExpr(41, 182,
                      Ident(42, 182, <<"r","s","a">>, <<>>),
                      Ident(43, 186, <<"G","e","n","e","r","a","t","e","K","e","y">>, <<>>)),
                    <<SelectorExpr(44, 198,
                        Ident(45, 198, <<"r","a","n","d">>, <<>>),
                        Ident(46, 203, <<"R","e","a","d","e","r">>, <<>>)),
                      BasicLit(47, 211, "INT", <<"5","1","2">>)>>)>>),
              IfStmt(48, 217,
                <<>>,
                BinaryExpr(49, 220,
                  Ident(50, 220, <<"e","r","r">>, <<175>>),
                  "!=",
                  Ident(51, 227, <<"n","i","l">>, <<>>)),
                BlockStmt(52, 231,
                  <<ReturnStmt(53, 235,
                      <<>>)>>),
                <<>>),
              AssignStmt(54, 246,
                <<Ident(55, 246, <<"_">>, <<>>)>>,
                "ASSIGN",
                <<Ident(56, 250, <<"k">>, <<172>>)>>),
              DeclStmt(57, 253,
                GenDecl(58, 253,
                  "var",
                  <<ValueSpec(59, 257,
                      <<Ident(60, 257, <<"s","h","o","r","t">>, <<257>>),
                        Ident(61, 264, <<"_">>, <<264>>)>>,
                      <<>>,
                      <<CallExpr(62, 268,
                          SelectorExpr(63, 268,
                            Ident(64, 268, <<"r","s","a">>, <<>>),
                            Ident(65, 272, <<"G","e","n","e","r","a","t","e","K","e","y">>, <<>>)),
                          <<SelectorExpr(66, 284,
                              Ident(67, 284, <<"r","a","n","d">>, <<>>),
                              Ident(68, 289, <<"R","e","a","d","e","r">>, <<>>)),
                            BasicLit(69, 297, "INT", <<"2","0","4","7">>)>>)>>)>>)),
              AssignStmt(70, 304,
                <<Ident(71, 304, <<"_">>, <<>>)>>,
                "ASSIGN",
                <<Ident(72, 308, <<"s","h","o","r","t">>, <<257>>)>>)>>))>>,
      <<ImportSpec(4, 25,
          <<>>,
          BasicLit(5, 25, "STRING", <<"\"","c","r","y","p","t","o","/","r","a","n","d","\"">>)),
        ImportSpec(6, 40,
          <<>>,
          BasicLit(7, 40, "STRING", <<"\"","c","r","y","p","t","o","/","r","s","a","\"">>))>>,
      <<0, 13, 14, 23, 38, 52, 54, 55, 104, 155, 156, 170, 215, 232, 241, 244, 251, 302, 313>>)

(* run_test.go
    1  package main
    2  
    3  func TestRun(t T) {
    4      svc.Start()
    5  }
*)
Tree_run_test ==
    File(1, 1,
      Ident(2, 9, <<"m","a","i","n">>, <<>>),
      <<FuncDecl(3, 15,
          Ident(4, 20, <<"T","e","s","t","R","u","n">>, <<20>>),
          FuncType(5, 15,
            FieldList(6, 27,
              <<Field(7, 28,
                  <<Ident(8, 28, <<"t">>, <<28>>)>>,
                  Ident(9, 30, <<"T">>, <<>>))>>),
            <<>>),
          BlockStmt(10, 33,
            <<ExprStmt(11, 36,
                CallExpr(12, 36,
                  SelectorExpr(13, 36,
                    Ident(14, 36, <<"s","v","c">>, <<>>),
                    Ident(15, 40, <<"S","t","a","r","t">>, <<>>)),
                  <<>>))>>))>>,
      <<>>,
      <<0, 13, 14, 34, 47>>)

(* safe.go
    1  package main
    2  
    3  import "fmt"
    4  
    5  func main() {
    6      fmt.Println("hello")
    7  }
*)
Tree_safe ==
    File(1, 1,
      Ident(2, 9, <<"m","a","i","n">>, <<>>),
      <<GenDecl(3, 15,
          "import",
          <<ImportSpec(4, 22,
              <<>>,
              BasicLit(5, 22, "STRING", <<"\"","f","m","t","\"">>))>>),
        FuncDecl(6, 29,
          Ident(7, 34, <<"m","a","i","n">>, <<34>>),
          FuncType(8, 29,
            FieldList(9, 38,
              <<>>),
            <<>>),
          BlockStmt(10, 41,
            <<ExprStmt(11, 44,
                CallExpr(12, 44,
                  SelectorExpr(13, 44,
                    Ident(14, 44, <<"f","m","t">>, <<>>),
                    Ident(15, 48, <<"P","r","i","n","t","l","n">>, <<>>)),
                  <<BasicLit(16, 56, "STRING", <<"\"","h","e","l","l","o","\"">>)>>))>>))>>,
      <<ImportSpec(4, 22,
          <<>>,
          BasicLit(5, 22, "STRING", <<"\"","f","m","t","\"">>))>>,
      <<0, 13, 14, 27, 28, 42, 64>>)

(* server.go
    1  package main
    2  
    3  import (
    4      "crypto/tls"
    5      "net/http"
    6  )
    7  
    8  func serve() {
    9      srv := &http.Server{
   10          Addr:      ":8080",
   11          TLSConfig: &tls.Config{InsecureSkipVerify: true, MinVersion: tls.VersionTLS10},
   12      }
   13      srv.ListenAndServe()
   14      http.Get("http://example.com/ping")
   15  }
*)
Tree_server ==
    File(1, 1,
      Ident(2, 9, <<"m","a","i","n">>, <<>>),
      <<GenDecl(3, 15,
          "import",
          <<ImportSpec(4, 25,
              <<>>,
              BasicLit(5, 25, "STRING", <<"\"","c","r","y","p","t","o","/","t","l","s","\"">>)),
            ImportSpec(6, 39,
              <<>>,
              BasicLit(7, 39, "STRING", <<"\"","n","e","t","/","h","t","t","p","\"">>))>>),
        FuncDecl(8, 53,
          Ident(9, 58, <<"s","e","r","v","e">>, <<58>>),
          FuncType(10, 53,
            FieldList(11, 63,
              <<>>),
            <<>>),
          BlockStmt(12, 66,
            <<AssignStmt(13, 69,
                <<Ident(14, 69, <<"s","r","v">>, <<69>>)>>,
                "DEFINE",
                <<UnaryExpr(15, 76,
                    "&",
                    CompositeLit(16, 77,
                      SelectorExpr(17, 77,
                        Ident(18, 77, <<"h","t","t","p">>, <<>>),
                        Ident(19, 82, <<"S","e","r","v","e","r">>, <<>>)),
                      <<KeyValueExpr(20, 92,
                          Ident(21, 92, <<"A","d","d","r">>, <<>>),
                          BasicLit(22, 103, "STRING", <<"\"",":","8","0","8","0","\"">>)),
                        KeyValueExpr(23, 114,
                          Ident(24, 114, <<"T","L","S","C","o","n","f","i","g">>, <<>>),
                          UnaryExpr(25, 125,
                            "&",
                            CompositeLit(26, 126,
                              SelectorExpr(27, 126,
                                Ident(28, 126, <<"t","l","s">>, <<>>),
                                Ident(29, 130, <<"C","o","n","f","i","g">>, <<>>)),
                              <<KeyValueExpr(30, 137,
                                  Ident(31, 137, <<"I","n","s","e","c","u","r","e","S","k","i","p","V","e","r","i","f","y">>, <<>>),
                                  Ident(32, 157, <<"t","r","u","e">>, <<>>)),
                                KeyValueExpr(33, 163,
                                  Ident(34, 163, <<"M","i","n","V","e","r","s","i","o","n">>, <<>>),
                                  SelectorExpr(35, 175,
                                    Ident(36, 175, <<"t","l","s">>, <<>>),
                                    Ident(37, 179, <<"V","e","r","s","i","o","n","T","L","S","1","0">>, <<>>)))>>)))>>))>>),
              ExprStmt(38, 198,
                CallExpr(39, 198,
                  SelectorExpr(40, 198,
                    Ident(41, 198, <<"s","r","v">>, <<69>>),
                    Ident(42, 202, <<"L","i","s","t","e","n","A","n","d","S","e","r","v","e">>, <<>>)),
                  <<>>)),
              ExprStmt(43, 220,
                CallExpr(44, 220,
                  SelectorExpr(45, 220,
                    Ident(46, 220, <<"h","t","t","p">>, <<>>),
                    Ident(47, 225, <<"G","e","t">>, <<>>)),
                  <<BasicLit(48, 229, "STRING", <<"\"","h","t","t","p",":","/","/","e","x","a","m","p","l","e",".","c","o","m","/","p","i","n","g","\"">>)>>))>>))>>,
      <<ImportSpec(4, 25,
          <<>>,
          BasicLit(5, 25, "STRING", <<"\"","c","r","y","p","t","o","/","t","l","s","\"">>)),
        ImportSpec(6, 39,
          <<>>,
          BasicLit(7, 39, "STRING", <<"\"","n","e","t","/","h","t","t","p","\"">>))>>,
      <<0, 13, 14, 23, 37, 49, 51, 52, 67, 89, 111, 193, 196, 218, 255>>)

(* sinks.go
    1  package main
    2  
    3  import (
    4      "net/http"
    5      "os"
    6      "os/exec"
    7      "path/filepath"
    8  )
    9  
   10  func handle(w http.ResponseWriter, r *http.Request) {
   11      name := r.FormValue("name")
   12      dir := "/srv"
   13      os.Open(name)
   14      os.Open(dir)
   15      os.Open(dir + "/" + name)
   16      os.Open(filepath.Join(dir, name))
   17      os.Open(filepath.Join(dir, "index.html"))
   18      os.Open(r.FormValue("file"))
   19      os.Open(r.URL.Path)
   20      exec.Command(name, name)
   21      os.Create("/tmp/out")
   22      os.Create(w.name)
   23  }
*)
Tree_sinks ==
    File(1, 1,
      Ident(2, 9, <<"m","a","i","n">>, <<>>),
      <<GenDecl(3, 15,
          "import",
          <<ImportSpec(4, 25,
              <<>>,
              BasicLit(5, 25, "STRING", <<"\"","n","e","t","/","h","t","t","p","\"">>)),
            ImportSpec(6, 37,
              <<>>,
              BasicLit(7, 37, "STRING", <<"\"","o","s","\"">>)),
            ImportSpec(8, 43,
              <<>>,
              BasicLit(9, 43, "STRING", <<"\"","o","s","/","e","x","e","c","\"">>)),
            ImportSpec(10, 54,
              <<>>,
              BasicLit(11, 54, "STRING", <<"\"","p","a","t","h","/","f","i","l","e","p","a","t","h","\"">>))>>),
        FuncDecl(12, 73,
          Ident(13, 78, <<"h","a","n","d","l","e">>, <<78>>),
          FuncType(14, 73,
            FieldList(15, 84,
              <<Field(16, 85,
                  <<Ident(17, 85, <<"w">>, <<85>>)>>,
                  SelectorExpr(18, 87,
                    Ident(19, 87, <<"h","t","t","p">>, <<>>),
                    Ident(20, 92, <<"R","e","s","p","o","n","s","e","W","r","i","t","e","r">>, <<>>))),
                Field(21, 108,
                  <<Ident(22, 108, <<"r">>, <<108>>)>>,
                  StarExpr(23, 110,
                    SelectorExpr(24, 111,
                      Ident(25, 111, <<"h","t","t","p">>, <<>>),
                      Ident(26, 116, <<"R","e","q","u","e","s","t">>, <<>>))))>>),
            <<>>),
          BlockStmt(27, 125,
            <<AssignStmt(28, 128,
                <<Ident(29, 128, <<"n","a","m","e">>, <<128>>)>>,
                "DEFINE",
                <<CallExpr(30, 136,
                    SelectorExpr(31, 136,
                      Ident(32, 136, <<"r">>, <<108>>),
                      Ident(33, 138, <<"F","o","r","m","V","a","l","u","e">>, <<>>)),
                    <<BasicLit(34, 148, "STRING", <<"\"","n","a","m","e","\"">>)>>)>>),
              AssignStmt(35, 157,
                <<Ident(36, 157, <<"d","i","r">>, <<157>>)>>,
                "DEFINE",
                <<BasicLit(37, 164, "STRING", <<"\"","/","s","r","v","\"">>)>>),
              ExprStmt(38, 172,
                CallExpr(39, 172,
                  SelectorExpr(40, 172,
                    Ident(41, 172, <<"o","s">>, <<>>),
                    Ident(42, 175, <<"O","p","e","n">>, <<>>)),
                  <<Ident(43, 180, <<"n","a","m","e">>, <<128>>)>>)),
              ExprStmt(44, 187,
                CallExpr(45, 187,
                  SelectorExpr(46, 187,
                    Ident(47, 187, <<"o","s">>, <<>>),
                    Ident(48, 190, <<"O","p","e","n">>, <<>>)),
                  <<Ident(49, 195, <<"d","i","r">>, <<157>>)>>)),
              ExprStmt(50, 201,
                CallExpr(51, 201,
                  SelectorExpr(52, 201,
                    Ident(53, 201, <<"o","s">>, <<>>),
                    Ident(54, 204, <<"O","p","e","n">>, <<>>)),
                  <<BinaryExpr(55, 209,
                      BinaryExpr(56, 209,
                        Ident(57, 209, <<"d","i","r">>, <<157>>),
                        "+",
                        BasicLit(58, 215, "STRING", <<"\"","/","\"">>)),
                      "+",
                      Ident(59, 221, <<"n","a","m","e">>, <<128>>))>>)),
              ExprStmt(60, 228,
                CallExpr(61, 228,
                  SelectorExpr(62, 228,
                    Ident(63, 228, <<"o","s">>, <<>>),
                    Ident(64, 231, <<"O","p","e","n">>, <<>>)),
                  <<CallExpr(65, 236,
                      SelectorExpr(66, 236,
                        Ident(67, 236, <<"f","i","l","e","p","a","t","h">>, <<>>),
                        Ident(68, 245, <<"J","o","i","n">>, <<>>)),
                      <<Ident(69, 250, <<"d","i","r">>, <<157>>),
                        Ident(70, 255, <<"n","a","m","e">>, <<128>>)>>)>>)),
              ExprStmt(71, 263,
                CallExpr(72, 263,
                  SelectorExpr(73, 263,
                    Ident(74, 263, <<"o","s">>, <<>>),
                    Ident(75, 266, <<"O","p","e","n">>, <<>>)),
                  <<CallExpr(76, 271,
                      SelectorExpr(77, 271,
                        Ident(78, 271, <<"f","i","l","e","p","a","t","h">>, <<>>),
                        Ident(79, 280, <<"J","o","i","n">>, <<>>)),
                      <<Ident(80, 285, <<"d","i","r">>, <<157>>),
                        BasicLit(81, 290, "STRING", <<"\"","i","n","d","e","x",".","h","t","m","l","\"">>)>>)>>)),
              ExprStmt(82, 306,
                CallExpr(83, 306,
                  SelectorExpr(84, 306,
                    Ident(85, 306, <<"o","s">>, <<>>),
                    Ident(86, 309, <<"O","p","e","n">>, <<>>)),
                  <<CallExpr(87, 314,
                      SelectorExpr(88, 314,
                        Ident(89, 314, <<"r">>, <<108>>),
                        Ident(90, 316, <<"F","o","r","m","V","a","l","u","e">>, <<>>)),
                      <<BasicLit(91, 326, "STRING", <<"\"","f","i","l","e","\"">>)>>)>>)),
              ExprStmt(92, 336,
                CallExpr(93, 336,
                  SelectorExpr(94, 336,
                    Ident(95, 336, <<"o","s">>, <<>>),
                    Ident(96, 339, <<"O","p","e","n">>, <<>>)),
                  <<SelectorExpr(97, 344,
                      SelectorExpr(98, 344,
                        Ident(99, 344, <<"r">>, <<108>>),
                        Ident(100, 346, <<"U","R","L">>, <<>>)),
                      Ident(101, 350, <<"P","a","t","h">>, <<>>))>>)),
              ExprStmt(102, 357,
                CallExpr(103, 357,
                  SelectorExpr(104, 357,
                    Ident(105, 357, <<"e","x","e","c">>, <<>>),
                    Ident(106, 362, <<"C","o","m","m","a","n","d">>, <<>>)),
                  <<Ident(107, 370, <<"n","a","m","e">>, <<128>>),
                    Ident(108, 376, <<"n","a","m","e">>, <<128>>)>>)),
              ExprStmt(109, 383,
                CallExpr(110, 383,
                  SelectorExpr(111, 383,
                    Ident(112, 383, <<"o","s">>, <<>>),
                    Ident(113, 386, <<"C","r","e","a","t","e">>, <<>>)),
                  <<BasicLit(114, 393, "STRING", <<"\"","/","t","m","p","/","o","u","t","\"">>)>>)),
              ExprStmt(115, 406,
                CallExpr(116, 406,
                  SelectorExpr(117, 406,
                    Ident(118, 406, <<"o","s">>, <<>>),
                    Ident(119, 409, <<"C","r","e","a","t","e">>, <<>>)),
                  <<SelectorExpr(120, 416,
                      Ident(121, 416, <<"w">>, <<85>>),
                      Ident(122, 418, <<"n","a","m","e">>, <<>>))>>))>>))>>,
      <<ImportSpec(4, 25,
          <<>>,
          BasicLit(5, 25, "STRING", <<"\"","n","e","t","/","h","t","t","p","\"">>)),
        ImportSpec(6, 37,
          <<>>,
          BasicLit(7, 37, "STRING", <<"\"","o","s","\"">>)),
        ImportSpec(8, 43,
          <<>>,
          BasicLit(9, 43, "STRING", <<"\"","o","s","/","e","x","e","c","\"">>)),
        ImportSpec(10, 54,
          <<>>,
          BasicLit(11, 54, "STRING", <<"\"","p","a","t","h","/","f","i","l","e","p","a","t","h","\"">>))>>,
      <<0, 13, 14, 23, 35, 41, 52, 69, 71, 72, 126, 155, 170, 185, 199, 226, 261, 304, 334, 355, 381, 404, 423>>)

(* structsecrets.go
    1  
    2  package main
    3  
    4  type Config struct {
    5      Secret string
    6      APIKey string
    7  }
    8  
    9  func init() {
   10      cfg := Config{
   11          Secret: "secretValue12345",
   12          APIKey: "abcdef1234567890",
   13      }
   14  }
*)
Tree_structsecrets ==
    File(1, 2,
      Ident(2, 10, <<"m","a","i","n">>, <<>>),
      <<GenDecl(3, 16,
          "type",
          <<TypeSpec(4, 21,
              Ident(5, 21, <<"C","o","n","f","i","g">>, <<21>>),
              StructType(6, 28,
                FieldList(7, 35,
                  <<Field(8, 38,
                      <<Ident(9, 38, <<"S","e","c","r","e","t">>, <<38>>)>>,
                      Ident(10, 45, <<"s","t","r","i","n","g">>, <<>>)),
                    Field(11, 53,
                      <<Ident(12, 53, <<"A","P","I","K","e","y">>, <<53>>)>>,
                      Ident(13, 60, <<"s","t","r","i","n","g">>, <<>>))>>)))>>),
        FuncDecl(14, 70,
          Ident(15, 75, <<"i","n","i","t">>, <<>>),
          FuncType(16, 70,
            FieldList(17, 79,
              <<>>),
            <<>>),
          BlockStmt(18, 82,
            <<AssignStmt(19, 85,
                <<Ident(20, 85, <<"c","f","g">>, <<85>>)>>,
                "DEFINE",
                <<CompositeLit(21, 92,
                    Ident(22, 92, <<"C","o","n","f","i","g">>, <<21>>),
                    <<KeyValueExpr(23, 102,
                        Ident(24, 102, <<"S","e","c","r","e","t">>, <<>>),
                        BasicLit(25, 110, "STRING", <<"\"","s","e","c","r","e","t","V","a","l","u","e","1","2","3","4","5","\"">>)),
                      KeyValueExpr(26, 132,
                        Ident(27, 132, <<"A","P","I","K","e","y">>, <<>>),
                        BasicLit(28, 140, "STRING", <<"\"","a","b","c","d","e","f","1","2","3","4","5","6","7","8","9","0","\"">>))>>)>>)>>))>>,
      <<>>,
      <<0, 1, 14, 15, 36, 51, 66, 68, 69, 83, 99, 129, 159, 162>>)

(* taint.go
    1  package main
    2  
    3  import (
    4      "net/http"
    5      "os/exec"
    6  )
    7  
    8  func run(w http.ResponseWriter, r *http.Request) {
    9      cmd := r.FormValue("cmd")
   10      arg := r.FormValue("arg")
   11      exec.Command(cmd, arg)
   12  }
*)
Tree_taint ==
    File(1, 1,
      Ident(2, 9, <<"m","a","i","n">>, <<>>),
      <<GenDecl(3, 15,
          "import",
          <<ImportSpec(4, 25,
              <<>>,
              BasicLit(5, 25, "STRING", <<"\"","n","e","t","/","h","t","t","p","\"">>)),
            ImportSpec(6, 37,
              <<>>,
              BasicLit(7, 37, "STRING", <<"\"","o","s","/","e","x","e","c","\"">>))>>),
        FuncDecl(8, 50,
          Ident(9, 55, <<"r","u","n">>, <<55>>),
          FuncType(10, 50,
            FieldList(11, 58,
              <<Field(12, 59,
                  <<Ident(13, 59, <<"w">>, <<59>>)>>,
                  SelectorExpr(14, 61,
                    Ident(15, 61, <<"h","t","t","p">>, <<>>),
                    Ident(16, 66, <<"R","e","s","p","o","n","s","e","W","r","i","t","e","r">>, <<>>))),
                Field(17, 82,
                  <<Ident(18, 82, <<"r">>, <<82>>)>>,
                  StarExpr(19, 84,
                    SelectorExpr(20, 85,
                      Ident(21, 85, <<"h","t","t","p">>, <<>>),
                      Ident(22, 90, <<"R","e","q","u","e","s","t">>, <<>>))))>>),
            <<>>),
          BlockStmt(23, 99,
            <<AssignStmt(24, 102,
                <<Ident(25, 102, <<"c","m","d">>, <<102>>)>>,
                "DEFINE",
                <<CallExpr(26, 109,
                    SelectorExpr(27, 109,
                      Ident(28, 109, <<"r">>, <<82>>),
                      Ident(29, 111, <<"F","o","r","m","V","a","l","u","e">>, <<>>)),
                    <<BasicLit(30, 121, "STRING", <<"\"","c","m","d","\"">>)>>)>>),
              AssignStmt(31, 129,
                <<Ident(32, 129, <<"a","r","g">>, <<129>>)>>,
                "DEFINE",
                <<CallExpr(33, 136,
                    SelectorExpr(34, 136,
                      Ident(35, 136, <<"r">>, <<82>>),
                      Ident(36, 138, <<"F","o","r","m","V","a","l","u","e">>, <<>>)),
                    <<BasicLit(37, 148, "STRING", <<"\"","a","r","g","\"">>)>>)>>),
              ExprStmt(38, 156,
                CallExpr(39, 156,
                  SelectorExpr(40, 156,
                    Ident(41, 156, <<"e","x","e","c">>, <<>>),
                    Ident(42, 161, <<"C","o","m","m","a","n","d">>, <<>>)),
                  <<Ident(43, 169, <<"c","m","d">>, <<102>>),
                    Ident(44, 174, <<"a","r","g">>, <<129>>)>>))>>))>>,
      <<ImportSpec(4, 25,
          <<>>,
          BasicLit(5, 25, "STRING", <<"\"","n","e","t","/","h","t","t","p","\"">>)),
        ImportSpec(6, 37,
          <<>>,
          BasicLit(7, 37, "STRING", <<"\"","o","s","/","e","x","e","c","\"">>))>>,
      <<0, 13, 14, 23, 35, 46, 48, 49, 100, 127, 154, 178>>)

(* timeouts.go
    1  package main
    2  
    3  import (
    4      "net/http"
    5      "time"
    6  )
    7  
    8  func serve() {
    9      a := &http.Server{Addr: ":8080"}
   10      b := &http.Server{Addr: ":8081", ReadTimeout: 5 * time.Second}
   11      c := &http.Server{Addr: ":8082", ReadTimeout: 5 * time.Second, WriteTimeout: 10 * time.Second, IdleTimeout: 60 * time.Second}
   12      a.ListenAndServe()
   13      b.ListenAndServe()
   14      c.ListenAndServe()
   15  }
*)
Tree_timeouts ==
    File(1, 1,
      Ident(2, 9, <<"m","a","i","n">>, <<>>),
      <<GenDecl(3, 15,
          "import",
          <<ImportSpec(4, 25,
              <<>>,
              BasicLit(5, 25, "STRING", <<"\"","n","e","t","/","h","t","t","p","\"">>)),
            ImportSpec(6, 37,
              <<>>,
              BasicLit(7, 37, "STRING", <<"\"","t","i","m","e","\"">>))>>),
        FuncDecl(8, 47,
          Ident(9, 52, <<"s","e","r","v","e">>, <<52>>),
          FuncType(10, 47,
            FieldList(11, 57,
              <<>>),
            <<>>),
          BlockStmt(12, 60,
            <<AssignStmt(13, 63,
                <<Ident(14, 63, <<"a">>, <<63>>)>>,
                "DEFINE",
                <<UnaryExpr(15, 68,
                    "&",
                    CompositeLit(16, 69,
                      SelectorExpr(17, 69,
                        Ident(18, 69, <<"h","t","t","p">>, <<>>),
                        Ident(19, 74, <<"S","e","r","v","e","r">>, <<>>)),
                      <<KeyValueExpr(20, 81,
                          Ident(21, 81, <<"A","d","d","r">>, <<>>),
                          BasicLit(22, 87, "STRING", <<"\"",":","8","0","8","0","\"">>))>>))>>),
              AssignStmt(23, 97,
                <<Ident(24, 97, <<"b">>, <<97>>)>>,
                "DEFINE",
                <<UnaryExpr(25, 102,
                    "&",
                    CompositeLit(26, 103,
                      SelectorExpr(27, 103,
                        Ident(28, 103, <<"h","t","t","p">>, <<>>),
                        Ident(29, 108, <<"S","e","r","v","e","r">>, <<>>)),
                      <<KeyValueExpr(30, 115,
                          Ident(31, 115, <<"A","d","d","r">>, <<>>),
                          BasicLit(32, 121, "STRING", <<"\"",":","8","0","8","1","\"">>)),
                        KeyValueExpr(33, 130,
                          Ident(34, 130, <<"R","e","a","d","T","i","m","e","o","u","t">>, <<>>),
                          BinaryExpr(35, 143,
                            BasicLit(36, 143, "INT", <<"5">>),
                            "*",
                            SelectorExpr(37, 147,
                              Ident(38, 147, <<"t","i","m","e">>, <<>>),
                              Ident(39, 152, <<"S","e","c","o","n","d">>, <<>>))))>>))>>),
              AssignStmt(40, 161,
                <<Ident(41, 161, <<"c">>, <<161>>)>>,
                "DEFINE",
                <<UnaryExpr(42, 166,
                    "&",
                    CompositeLit(43, 167,
                      SelectorExpr(44, 167,
                        Ident(45, 167, <<"h","t","t","p">>, <<>>),
                        Ident(46, 172, <<"S","e","r","v","e","r">>, <<>>)),
                      <<KeyValueExpr(47, 179,
                          Ident(48, 179, <<"A","d","d","r">>, <<>>),
                          BasicLit(49, 185, "STRING", <<"\"",":","8","0","8","2","\"">>)),
                        KeyValueExpr(50, 194,
                          Ident(51, 194, <<"R","e","a","d","T","i","m","e","o","u","t">>, <<>>),
                          BinaryExpr(52, 207,
                            BasicLit(53, 207, "INT", <<"5">>),
                            "*",
                            SelectorExpr(54, 211,
                              Ident(55, 211, <<"t","i","m","e">>, <<>>),
                              Ident(56, 216, <<"S","e","c","o","n","d">>, <<>>)))),
                        KeyValueExpr(57, 224,
                          Ident(58, 224, <<"W","r","i","t","e","T","i","m","e","o","u","t">>, <<>>),
                          BinaryExpr(59, 238,
                            BasicLit(60, 238, "INT", <<"1","0">>),
                            "*",
                            SelectorExpr(61, 243,
                              Ident(62, 243, <<"t","i","m","e">>, <<>>),
                              Ident(63, 248, <<"S","e","c","o","n","d">>, <<>>)))),
                        KeyValueExpr(64, 256,
                          Ident(65, 256, <<"I","d","l","e","T","i","m","e","o","u","t">>, <<>>),
                          BinaryExpr(66, 269,
                            BasicLit(67, 269, "INT", <<"6","0">>),
                            "*",
                            SelectorExpr(68, 274,
                              Ident(69, 274, <<"t","i","m","e">>, <<>>),
                              Ident(70, 279, <<"S","e","c","o","n","d">>, <<>>))))>>))>>),
              ExprStmt(71, 288,
                CallExpr(72, 288,
                  SelectorExpr(73, 288,
                    Ident(74, 288, <<"a">>, <<63>>),
                    Ident(75, 290, <<"L","i","s","t","e","n","A","n","d","S","e","r","v","e">>, <<>>)),
                  <<>>)),
              ExprStmt(76, 308,
                CallExpr(77, 308,
                  SelectorExpr(78, 308,
                    Ident(79, 308, <<"b">>, <<97>>),
                    Ident(80, 310, <<"L","i","s","t","e","n","A","n","d","S","e","r","v","e">>, <<>>)),
                  <<>>)),
              ExprStmt(81, 328,
                CallExpr(82, 328,
                  SelectorExpr(83, 328,
                    Ident(84, 328, <<"c">>, <<161>>),
                    Ident(85, 330, <<"L","i","s","t","e","n","A","n","d","S","e","r","v","e">>, <<>>)),
                  <<>>))>>))>>,
      <<ImportSpec(4, 25,
          <<>>,
          BasicLit(5, 25, "STRING", <<"\"","n","e","t","/","h","t","t","p","\"">>)),
        ImportSpec(6, 37,
          <<>>,
          BasicLit(7, 37, "STRING", <<"\"","t","i","m","e","\"">>))>>,
      <<0, 13, 14, 23, 35, 43, 45, 46, 61, 95, 159, 286, 306, 326, 346>>)

(* unsafequery.go
    1  
    2  package main
    3  
    4  import (
    5      "database/sql"
    6      _ "github.com/lib/pq"
    7  )
    8  
    9  func unsafeQuery(db *sql.DB, username string) {
   10      // (comment)
   11      query := "SELECT * FROM users WHERE username = '" + username + "'"
   12      db.Query(query)
   13  
   14      // (comment)
   15      safeQuery := "SELECT * FROM users WHERE username = $1"
   16      db.Query(safeQuery, username)
   17  }
*)
Tree_unsafequery ==
    File(1, 2,
      Ident(2, 10, <<"m","a","i","n">>, <<>>),
      <<GenDecl(3, 16,
          "import",
          <<ImportSpec(4, 26,
              <<>>,
              BasicLit(5, 26, "STRING", <<"\"","d","a","t","a","b","a","s","e","/","s","q","l","\"">>)),
            ImportSpec(6, 42,
              <<Ident(7, 42, <<"_">>, <<>>)>>,
              BasicLit(8, 44, "STRING", <<"\"","g","i","t","h","u","b",".","c","o","m","/","l","i","b","/","p","q","\"">>))>>),
        FuncDecl(9, 67,
          Ident(10, 72, <<"u","n","s","a","f","e","Q","u","e","r","y">>, <<72>>),
          FuncType(11, 67,
            FieldList(12, 83,
              <<Field(13, 84,
                  <<Ident(14, 84, <<"d","b">>, <<84>>)>>,
                  StarExpr(15, 87,
                    SelectorExpr(16, 88,
                      Ident(17, 88, <<"s","q","l">>, <<>>),
                      Ident(18, 92, <<"D","B">>, <<>>)))),
                Field(19, 96,
                  <<Ident(20, 96, <<"u","s","e","r","n","a","m","e">>, <<96>>)>>,
                  Ident(21, 105, <<"s","t","r","i","n","g">>, <<>>))>>),
            <<>>),
          BlockStmt(22, 113,
            <<AssignStmt(23, 130,
                <<Ident(24, 130, <<"q","u","e","r","y">>, <<130>>)>>,
                "DEFINE",
                <<BinaryExpr(25, 139,
                    BinaryExpr(26, 139,
                      BasicLit(27, 139, "STRING", <<"\"","S","E","L","E","C","T"," ","*"," ","F","R","O","M"," ","u","s","e","r","s"," ","W","H","E","R","E"," ","u","s","e","r","n","a","m","e"," ","="," ","'","\"">>),
                      "+",
                      Ident(28, 182, <<"u","s","e","r","n","a","m","e">>, <<96>>)),
                    "+",
                    BasicLit(29, 193, "STRING", <<"\"","'","\"">>))>>),
              ExprStmt(30, 198,
                CallExpr(31, 198,
                  SelectorExpr(32, 198,
                    Ident(33, 198, <<"d","b">>, <<84>>),
                    Ident(34, 201, <<"Q","u","e","r","y">>, <<>>)),
                  <<Ident(35, 207, <<"q","u","e","r","y">>, <<130>>)>>)),
              AssignStmt(36, 230,
                <<Ident(37, 230, <<"s","a","f","e","Q","u","e","r","y">>, <<230>>)>>,
                "DEFINE",
                <<BasicLit(38, 243, "STRING", <<"\"","S","E","L","E","C","T"," ","*"," ","F","R","O","M"," ","u","s","e","r","s"," ","W","H","E","R","E"," ","u","s","e","r","n","a","m","e"," ","="," ","$","1","\"">>)>>),
              ExprStmt(39, 286,
                CallExpr(40, 286,
                  SelectorExpr(41, 286,
                    Ident(42, 286, <<"d","b">>, <<84>>),
                    Ident(43, 289, <<"Q","u","e","r","y">>, <<>>)),
                  <<Ident(44, 295, <<"s","a","f","e","Q","u","e","r","y">>, <<230>>),
                    Ident(45, 306, <<"u","s","e","r","n","a","m","e">>, <<96>>)>>))>>))>>,
      <<ImportSpec(4, 26,
          <<>>,
          BasicLit(5, 26, "STRING", <<"\"","d","a","t","a","b","a","s","e","/","s","q","l","\"">>)),
        ImportSpec(6, 42,
          <<Ident(7, 42, <<"_">>, <<>>)>>,
          BasicLit(8, 44, "STRING", <<"\"","g","i","t","h","u","b",".","c","o","m","/","l","i","b","/","p","q","\"">>))>>,
      <<0, 1, 14, 15, 24, 40, 63, 65, 66, 114, 128, 196, 213, 214, 228, 284, 315>>)

(* userinput.go
    1  
    2  package main
    3  
    4  import (
    5      "net/http"
    6      "os/exec"
    7      "html/template"
    8      "io/ioutil"
    9      "os"
   10  )
   11  
   12  func handleRequest(w http.ResponseWriter, r *http.Request) {
   13      // (comment)
   14      command := r.URL.Query().Get("cmd")
   15      exec.Command("sh", "-c", command).Run()
   16      
   17      // (comment)
   18      username := r.FormValue("username")
   19      html := "<div>" + username + "</div>"
   20      w.Write([]byte(html))
   21      
   22      // (comment)
   23      filename := r.URL.Query().Get("file")
   24      os.Open(filename)
   25      
   26      // (comment)
   27      userInput := r.FormValue("input")
   28      tmpl := template.New("example")
   29      tmpl.Parse("{{." + userInput + "}}")
   30  }
*)
Tree_userinput ==
    File(1, 2,
      Ident(2, 10, <<"m","a","i","n">>, <<>>),
      <<GenDecl(3, 16,
          "import",
          <<ImportSpec(4, 26,
              <<>>,
              BasicLit(5, 26, "STRING", <<"\"","n","e","t","/","h","t","t","p","\"">>)),
            ImportSpec(6, 38,
              <<>>,
              BasicLit(7, 38, "STRING", <<"\"","o","s","/","e","x","e","c","\"">>)),
            ImportSpec(8, 49,
              <<>>,
              BasicLit(9, 49, "STRING", <<"\"","h","t","m","l","/","t","e","m","p","l","a","t","e","\"">>)),
            ImportSpec(10, 66,
              <<>>,
              BasicLit(11, 66, "STRING", <<"\"","i","o","/","i","o","u","t","i","l","\"">>)),
            ImportSpec(12, 79,
              <<>>,
              BasicLit(13, 79, "STRING", <<"\"","o","s","\"">>))>>),
        FuncDecl(14, 87,
          Ident(15, 92, <<"h","a","n","d","l","e","R","e","q","u","e","s","t">>, <<92>>),
          FuncType(16, 87,
            FieldList(17, 105,
              <<Field(18, 106,
                  <<Ident(19, 106, <<"w">>, <<106>>)>>,
                  SelectorExpr(20, 108,
                    Ident(21, 108, <<"h","t","t","p">>, <<>>),
                    Ident(22, 113, <<"R","e","s","p","o","n","s","e","W","r","i","t","e","r">>, <<>>))),
                Field(23, 129,
                  <<Ident(24, 129, <<"r">>, <<129>>)>>,
                  StarExpr(25, 131,
                    SelectorExpr(26, 132,
                      Ident(27, 132, <<"h","t","t","p">>, <<>>),
                      Ident(28, 137, <<"R","e","q","u","e","s","t">>, <<>>))))>>),
            <<>>),
          BlockStmt(29, 146,
            <<AssignStmt(30, 163,
                <<Ident(31, 163, <<"c","o","m","m","a","n","d">>, <<163>>)>>,
                "DEFINE",
                <<CallExpr(32, 174,
                    SelectorExpr(33, 174,
                      CallExpr(34, 174,
                        SelectorExpr(35, 174,
                          SelectorExpr(36, 174,
                            Ident(37, 174, <<"r">>, <<129>>),
                            Ident(38, 176, <<"U","R","L">>, <<>>)),
                          Ident(39, 180, <<"Q","u","e","r","y">>, <<>>)),
                        <<>>),
                      Ident(40, 188, <<"G","e","t">>, <<>>)),
                    <<BasicLit(41, 192, "STRING", <<"\"","c","m","d","\"">>)>>)>>),
              ExprStmt(42, 200,
                CallExpr(43, 200,
                  SelectorExpr(44, 200,
                    CallExpr(45, 200,
                      SelectorExpr(46, 200,
                        Ident(47, 200, <<"e","x","e","c">>, <<>>),
                        Ident(48, 205, <<"C","o","m","m","a","n","d">>, <<>>)),
                      <<BasicLit(49, 213, "STRING", <<"\"","s","h","\"">>),
                        BasicLit(50, 219, "STRING", <<"\"","-","c","\"">>),
                        Ident(51, 225, <<"c","o","m","m","a","n","d">>, <<163>>)>>),
                    Ident(52, 234, <<"R","u","n">>, <<>>)),
                  <<>>)),
              AssignStmt(53, 257,
                <<Ident(54, 257, <<"u","s","e","r","n","a","m","e">>, <<257>>)>>,
                "DEFINE",
                <<CallExpr(55, 269,
                    SelectorExpr(56, 269,
                      Ident(57, 269, <<"r">>, <<129>>),
                      Ident(58, 271, <<"F","o","r","m","V","a","l","u","e">>, <<>>)),
                    <<BasicLit(59, 281, "STRING", <<"\"","u","s","e","r","n","a","m","e","\"">>)>>)>>),
              AssignStmt(60, 294,
                <<Ident(61, 294, <<"h","t","m","l">>, <<294>>)>>,
                "DEFINE",
                <<BinaryExpr(62, 302,
                    BinaryExpr(63, 302,
                      BasicLit(64, 302, "STRING", <<"\"","<","d","i","v",">","\"">>),
                      "+",
                      Ident(65, 312, <<"u","s","e","r","n","a","m","e">>, <<257>>)),
                    "+",
                    BasicLit(66, 323, "STRING", <<"\"","<","/","d","i","v",">","\"">>))>>),
              ExprStmt(67, 333,
                CallExpr(68, 333,
                  SelectorExpr(69, 333,
                    Ident(70, 333, <<"w">>, <<106>>),
                    Ident(71, 335, <<"W","r","i","t","e">>, <<>>)),
                  <<CallExpr(72, 341,
                      ArrayType(73, 341,
                        Ident(74, 343, <<"b","y","t","e">>, <<>>)),
                      <<Ident(75, 348, <<"h","t","m","l">>, <<294>>)>>)>>)),
              AssignStmt(76, 372,
                <<Ident(77, 372, <<"f","i","l","e","n","a","m","e">>, <<372>>)>>,
                "DEFINE",
                <<CallExpr(78, 384,
                    SelectorExpr(79, 384,
                      CallExpr(80, 384,
                        SelectorExpr(81, 384,
                          SelectorExpr(82, 384,
                            Ident(83, 384, <<"r">>, <<129>>),
                            Ident(84, 386, <<"U","R","L">>, <<>>)),
                          Ident(85, 390, <<"Q","u","e","r","y">>, <<>>)),
                        <<>>),
                      Ident(86, 398, <<"G","e","t">>, <<>>)),
                    <<BasicLit(87, 402, "STRING", <<"\"","f","i","l","e","\"">>)>>)>>),
              ExprStmt(88, 411,
                CallExpr(89, 411,
                  SelectorExpr(90, 411,
                    Ident(91, 411, <<"o","s">>, <<>>),
                    Ident(92, 414, <<"O","p","e","n">>, <<>>)),
                  <<Ident(93, 419, <<"f","i","l","e","n","a","m","e">>, <<372>>)>>)),
              AssignStmt(94, 446,
                <<Ident(95, 446, <<"u","s","e","r","I","n","p","u","t">>, <<446>>)>>,
                "DEFINE",
                <<CallExpr(96, 459,
                    SelectorExpr(97, 459,
                      Ident(98, 459, <<"r">>, <<129>>),
                      Ident(99, 461, <<"F","o","r","m","V","a","l","u","e">>, <<>>)),
                    <<BasicLit(100, 471, "STRING", <<"\"","i","n","p","u","t","\"">>)>>)>>),
              AssignStmt(101, 481,
                <<Ident(102, 481, <<"t","m","p","l">>, <<481>>)>>,
                "DEFINE",
                <<CallExpr(103, 489,
                    SelectorExpr(104, 489,
                      Ident(105, 489, <<"t","e","m","p","l","a","t","e">>, <<>>),
                      Ident(106, 498, <<"N","e","w">>, <<>>)),
                    <<BasicLit(107, 502, "STRING", <<"\"","e","x","a","m","p","l","e","\"">>)>>)>>),
              ExprStmt(108, 514,
                CallExpr(109, 514,
                  SelectorExpr(110, 514,
                    Ident(111, 514, <<"t","m","p","l">>, <<481>>),
                    Ident(112, 519, <<"P","a","r","s","e">>, <<>>)),
                  <<BinaryExpr(113, 525,
                      BinaryExpr(114, 525,
                        BasicLit(115, 525, "STRING", <<"\"","{","{",".","\"">>),
                        "+",
                        Ident(116, 533, <<"u","s","e","r","I","n","p","u","t">>, <<446>>)),
                      "+",
                      BasicLit(117, 545, "STRING", <<"\"","}","}","\"">>))>>))>>))>>,
      <<ImportSpec(4, 26,
          <<>>,
          BasicLit(5, 26, "STRING", <<"\"","n","e","t","/","h","t","t","p","\"">>)),
        ImportSpec(6, 38,
          <<>>,
          BasicLit(7, 38, "STRING", <<"\"","o","s","/","e","x","e","c","\"">>)),
        ImportSpec(8, 49,
          <<>>,
          BasicLit(9, 49, "STRING", <<"\"","h","t","m","l","/","t","e","m","p","l","a","t","e","\"">>)),
        ImportSpec(10, 66,
          <<>>,
          BasicLit(11, 66, "STRING", <<"\"","i","o","/","i","o","u","t","i","l","\"">>)),
        ImportSpec(12, 79,
          <<>>,
          BasicLit(13, 79, "STRING", <<"\"","o","s","\"">>))>>,
      <<0, 1, 14, 15, 24, 36, 47, 64, 77, 83, 85, 86, 147, 161, 198, 239, 241, 255, 292, 331, 354, 356, 370, 409, 428, 430, 444, 479, 512, 550>>)

(***************************************************************************)
(* internal/rules: Context, BaseRule and the issue a rule creates          *)
(***************************************************************************)

\* report.Severity
SeverityCritical == "CRITICAL"
SeverityHigh == "HIGH"
SeverityMedium == "MEDIUM"
SeverityLow == "LOW"
SeverityInfo == "INFO"

\* A message of an issue: the constant text of the source (in Russian there,
\* rendered in English here) and the name the source appends to it (<<>> when
\* it appends none).
Msg(text, arg) == [text |-> text, arg |-> arg]

\* NewIssue with the directory of the file for its path.
NewIssueInDir(r, pos, ctx, message) ==
    LET position == Position(ctx.File.lines, pos)
    IN  [RuleID |-> r.id,
         Severity |-> r.severity,
         FilePath |-> ctx.FileDir,
         Line |-> position.Line,
         Column |-> position.Column,
         Message |-> message,
         Description |-> r.description]

\* BaseRule.NewIssue
NewIssue(r, pos, ctx, message) ==
    LET position == Position(ctx.File.lines, pos)
    IN  [RuleID |-> r.id,
         Severity |-> r.severity,
         FilePath |-> ctx.FilePath,
         Line |-> position.Line,
         Column |-> position.Column,
         Message |-> message,
         Description |-> r.description]

\* What a call of Check ends with: the issues it returns, or a run-time panic
\* (a nil pointer dereference), in which case it returns nothing.
Returned(issues) == [panic |-> FALSE, issues |-> issues]
Panicked == [panic |-> TRUE, issues |-> <<>>]

\* n.(*ast.T)
Is(n, kind) == n.kind = kind

\* The elements of a sequence of sequences of issues, in order.
Collect(nodes, F(_)) == Flatten([i \in 1..Len(nodes) |-> F(nodes[i])])

(***************************************************************************)
(* SQLInjectionRule (SEC001)                                               *)
(***************************************************************************)

\* A regular expression of the form (?i)(w1|w2|...): some word occurs in s,
\* whatever the case of the letters of s.  The words are in lower case.
MatchAnyFold(s, words) == \E w \in words : Contains(ToLower(s), w)

\* (?i)(SELECT|INSERT|UPDATE|DELETE|DROP|CREATE|ALTER|TRUNCATE)\s+
sqlQueryRegex(s) ==
    \E w \in {<<"s","e","l","e","c","t">>, <<"i","n","s","e","r","t">>, <<"u","p","d","a","t","e">>, <<"d","e","l","e","t","e">>, <<"d","r","o","p">>,
              <<"c","r","e","a","t","e">>, <<"a","l","t","e","r">>, <<"t","r","u","n","c","a","t","e">>} :
        \E i \in 1..Len(s) :
            /\ MatchAt(ToLower(s), w, i)
            /\ i + Len(w) <= Len(s)
            /\ s[i + Len(w)] \in SpaceChars

NewSQLInjectionRule ==
    [id |-> "SEC001",
     description |-> "potential SQL injection found",
     severity |-> SeverityCritical,
     sqlQueryRegex |-> "(?i)(SELECT|INSERT|UPDATE|DELETE|DROP|CREATE|ALTER|TRUNCATE)\\s+"]

isVulnerableSQLMethod(methodName) ==
    methodName \in {<<"Q","u","e","r","y">>, <<"Q","u","e","r","y","R","o","w">>, <<"E","x","e","c">>, <<"P","r","e","p","a","r","e">>,
                    <<"Q","u","e","r","y","C","o","n","t","e","x","t">>, <<"Q","u","e","r","y","R","o","w","C","o","n","t","e","x","t">>, <<"E","x","e","c","C","o","n","t","e","x","t">>,
                    <<"P","r","e","p","a","r","e","C","o","n","t","e","x","t">>}

\* %[dtv]
SafeVerbRegex(s) ==
    \E i \in 1..Len(s) : s[i] = "%" /\ i + 1 <= Len(s) /\ s[i + 1] \in {"d", "t", "v"}

\* %[^dtv]
UnsafeVerbRegex(s) ==
    \E i \in 1..Len(s) : s[i] = "%" /\ i + 1 <= Len(s) /\ s[i + 1] \notin {"d", "t", "v"}

\* isRiskySQLQuery with only the Sprintf calls of an unsafe template risky
\* among the calls.
isRiskySQLQuerySprintfOnly(arg) ==
    CASE Is(arg, "BasicLit") -> FALSE
      [] Is(arg, "BinaryExpr") -> arg.op = "+"
      [] Is(arg, "Ident") -> TRUE
      [] Is(arg, "CallExpr") ->
            /\ Is(arg.fun, "SelectorExpr")
            /\ arg.fun.sel.name = <<"S","p","r","i","n","t","f">>
            /\ Len(arg.args) > 0
            /\ Is(arg.args[1], "BasicLit")
            /\ arg.args[1].litKind = "STRING"
            /\ UnsafeVerbRegex(arg.args[1].value)
      [] OTHER -> FALSE

isRiskySQLQuery(arg) ==
    CASE Is(arg, "BasicLit") -> FALSE
      [] Is(arg, "BinaryExpr") -> arg.op = "+"
      [] Is(arg, "Ident") -> TRUE
      [] Is(arg, "CallExpr") ->
            IF /\ Is(arg.fun, "SelectorExpr")
               /\ arg.fun.sel.name = <<"S","p","r","i","n","t","f">>
               /\ Len(arg.args) > 0
               /\ Is(arg.args[1], "BasicLit")
               /\ arg.args[1].litKind = "STRING"
            THEN LET value == arg.args[1].value
                 IN  IF ~Contains(value, <<"%">>) THEN FALSE
                     ELSE IF SafeVerbRegex(value) /\ ~UnsafeVerbRegex(value) THEN FALSE
                     ELSE TRUE
            ELSE TRUE
      [] OTHER -> FALSE

\* childNodes(n) holds node
IsChild(n, node) == \E i \in 1..Len(Children(n)) : Children(n)[i].id = node.id

\* getParent: the first node, in the order of ast.Inspect, that has node among
\* its children; <<>> when there is none.
getParent(file, node) ==
    LET nodes == Inspect(file)
        parents == {i \in 1..Len(nodes) : IsChild(nodes[i], node)}
    IN  IF parents = {} THEN <<>>
        ELSE <<nodes[CHOOSE i \in parents : \A j \in parents : i <= j]>>

\* One node of the walk: the issues the callback appends.
SQLInjectionIssues(r, ctx, n) ==
    (IF /\ Is(n, "CallExpr")
        /\ Is(n.fun, "SelectorExpr")
        /\ isVulnerableSQLMethod(n.fun.sel.name)
        /\ Len(n.args) > 0
        /\ isRiskySQLQuery(n.args[1])
     THEN <<NewIssue(r, n.pos, ctx,
              Msg("possible SQL injection: use prepared statements with parameters", <<>>))>>
     ELSE <<>>)
    \o
    (IF /\ Is(n, "BasicLit")
        /\ n.litKind = "STRING"
        /\ sqlQueryRegex(n.value)
        /\ LET parent == getParent(ctx.File, n)
           IN  /\ parent # <<>>
               /\ Is(parent[1], "BinaryExpr")
               /\ parent[1].op = "+"
     THEN <<NewIssue(r, n.pos, ctx,
              Msg("string concatenation in an SQL query can lead to SQL injection", <<>>))>>
     ELSE <<>>)

\* SQLInjectionRule.Check
CheckSQLInjection(r, ctx) ==
    LET issuesOf(n) == SQLInjectionIssues(r, ctx, n)
    IN  Returned(Collect(Inspect(ctx.File), issuesOf))

(***************************************************************************)
(* internal/rules/secrets.go: HardcodedSecretsRule (SEC002)                *)
(***************************************************************************)

Quotes == {"'", "\""}

\* The tail the four regular expressions share,
\*     [\s]*=[\s]*['"]<class>{min,}['"]
\* matched in s from index j on.
SecretTail(s, j, class, min) ==
    \E eq \in j..Len(s) :
        /\ \A k \in j..(eq - 1) : s[k] \in SpaceChars
        /\ s[eq] = "="
        /\ \E q \in (eq + 1)..Len(s) :
              /\ \A k \in (eq + 1)..(q - 1) : s[k] \in SpaceChars
              /\ s[q] \in Quotes
              /\ \E e \in (q + 1 + min)..Len(s) :
                    /\ \A k \in (q + 1)..(e - 1) : s[k] \in class
                    /\ s[e] \in Quotes

\* (?i)(w1|w2|...) followed by the tail.
SecretRegex(s, words, class, min) ==
    \E w \in words : \E i \in 1..Len(s) :
        MatchAt(ToLower(s), w, i) /\ SecretTail(s, i + Len(w), class, min)

\* [\w\d\+\/=]
KeyChars == WordChars \cup DigitChars \cup {"+", "/", "="}

\* [^'"]
NotQuote == ({Ascii[i] : i \in 1..Len(Ascii)} \cup SpaceChars) \ Quotes

\* (?i)(api_?key|app_?key|token|secret|jwt|authorization)[\s]*=[\s]*['"][\w\d\+\/=]{8,}['"]
apiKeyRegex(s) ==
    SecretRegex(s, {<<"a","p","i","k","e","y">>, <<"a","p","i","_","k","e","y">>, <<"a","p","p","k","e","y">>, <<"a","p","p","_","k","e","y">>, <<"t","o","k","e","n">>,
                    <<"s","e","c","r","e","t">>, <<"j","w","t">>, <<"a","u","t","h","o","r","i","z","a","t","i","o","n">>}, KeyChars, 8)

\* (?i)(password|passwd|pass|pwd)[\s]*=[\s]*['"][^'"]{3,}['"]
passwordRegex(s) ==
    SecretRegex(s, {<<"p","a","s","s","w","o","r","d">>, <<"p","a","s","s","w","d">>, <<"p","a","s","s">>, <<"p","w","d">>}, NotQuote, 3)

\* (?i)(auth.?token|oauth|bearer|jwt)[\s]*=[\s]*['"][^'"]{8,}['"]
tokenRegex(s) ==
    \/ SecretRegex(s, {<<"a","u","t","h","t","o","k","e","n">>, <<"o","a","u","t","h">>, <<"b","e","a","r","e","r">>, <<"j","w","t">>}, NotQuote, 8)
    \/ \E i \in 1..Len(s) :
          /\ MatchAt(ToLower(s), <<"a","u","t","h">>, i)
          /\ i + 4 <= Len(s)
          /\ s[i + 4] # "\n"
          /\ MatchAt(ToLower(s), <<"t","o","k","e","n">>, i + 5)
          /\ SecretTail(s, i + 10, NotQuote, 8)

\* (?i)(credential|auth)[\s]*=[\s]*['"][^'"]{8,}['"]
credentialRegex(s) ==
    SecretRegex(s, {<<"c","r","e","d","e","n","t","i","a","l">>, <<"a","u","t","h">>}, NotQuote, 8)

NewHardcodedSecretsRule ==
    [id |-> "SEC002",
     description |-> "hard-coded secret or password found",
     severity |-> SeverityHigh,
     apiKeyRegex |-> "(?i)(api_?key|app_?key|token|secret|jwt|authorization)[\\s]*=[\\s]*['\"][\\w\\d\\+\\/=]{8,}['\"]",
     passwordRegex |-> "(?i)(password|passwd|pass|pwd)[\\s]*=[\\s]*['\"][^'\"]{3,}['\"]",
     tokenRegex |-> "(?i)(auth.?token|oauth|bearer|jwt)[\\s]*=[\\s]*['\"][^'\"]{8,}['\"]",
     credentialRegex |-> "(?i)(credential|auth)[\\s]*=[\\s]*['\"][^'\"]{8,}['\"]",
     sensitiveNames |->
        {<<"p","a","s","s","w","o","r","d">>, <<"p","a","s","s","w","d">>, <<"p","a","s","s">>, <<"p","w","d">>, <<"a","p","i","k","e","y">>, <<"a","p","i","_","k","e","y">>,
         <<"s","e","c","r","e","t">>, <<"s","e","c","r","e","t","k","e","y">>, <<"s","e","c","r","e","t","_","k","e","y">>, <<"t","o","k","e","n">>, <<"a","c","c","e","s","s","t","o","k","e","n">>,
         <<"a","c","c","e","s","s","_","t","o","k","e","n">>, <<"a","u","t","h">>, <<"a","u","t","h","e","n","t","i","c","a","t","i","o","n">>, <<"c","r","e","d","e","n","t","i","a","l">>, <<"j","w","t">>,
         <<"p","r","i","v","a","t","e">>, <<"p","r","i","v","a","t","e","k","e","y">>, <<"p","r","i","v","a","t","e","_","k","e","y">>}]

isSensitiveName(r, name) ==
    LET lowerName == ToLower(name)
    IN  \/ lowerName \in r.sensitiveNames
        \/ \E sensitive \in r.sensitiveNames : Contains(lowerName, sensitive)

containsAlphaAndNumeric(s) ==
    /\ \E i \in 1..Len(s) : s[i] \in LowerChars \cup UpperChars
    /\ \E i \in 1..Len(s) : s[i] \in DigitChars

isLikelySecret(r, quoted) ==
    LET value == Trim(quoted, Quotes)
    IN  IF Len(value) < 3 THEN FALSE
        ELSE IF value \in {<<"p","a","s","s","w","o","r","d">>, <<"1","2","3","4","5","6">>, <<"t","e","s","t">>, <<"e","x","a","m","p","l","e">>} THEN FALSE
        ELSE IF Contains(value, <<"$","{">>) \/ Contains(value, <<"$","(">>) \/ HasPrefix(value, <<"{","{">>)
             THEN FALSE
        ELSE IF \/ HasPrefix(value, <<"h","t","t","p",":","/","/">>)
                \/ HasPrefix(value, <<"h","t","t","p","s",":","/","/">>)
                \/ HasPrefix(value, <<"/">>)
             THEN FALSE
        ELSE Len(value) >= 8 /\ containsAlphaAndNumeric(value)

containsSecretPattern(r, value) ==
    apiKeyRegex(value) \/ passwordRegex(value) \/ tokenRegex(value) \/ credentialRegex(value)

StringLit(x) == Is(x, "BasicLit") /\ x.litKind = "STRING"

\* One node of the walk: the issues the callback appends.
HardcodedSecretsIssues(r, ctx, n) ==
    CASE Is(n, "ValueSpec") ->
            Flatten([i \in 1..Len(n.names) |->
                IF /\ isSensitiveName(r, n.names[i].name)
                   /\ i <= Len(n.values)
                   /\ StringLit(n.values[i])
                   /\ isLikelySecret(r, n.values[i].value)
                THEN <<NewIssue(r, n.pos, ctx,
                         Msg("potential hard-coded secret in variable", n.names[i].name))>>
                ELSE <<>>])
      [] Is(n, "AssignStmt") ->
            Flatten([i \in 1..Len(n.lhs) |->
                IF /\ i <= Len(n.rhs)
                   /\ Is(n.lhs[i], "Ident")
                   /\ isSensitiveName(r, n.lhs[i].name)
                   /\ StringLit(n.rhs[i])
                   /\ isLikelySecret(r, n.rhs[i].value)
                THEN <<NewIssue(r, n.pos, ctx,
                         Msg("potential hard-coded secret in assignment", n.lhs[i].name))>>
                ELSE <<>>])
      [] Is(n, "KeyValueExpr") ->
            IF /\ Is(n.key, "Ident")
               /\ isSensitiveName(r, n.key.name)
               /\ StringLit(n.val)
               /\ isLikelySecret(r, n.val.value)
            THEN <<NewIssue(r, n.pos, ctx,
                     Msg("potential hard-coded secret in struct field or map", n.key.name))>>
            ELSE <<>>
      [] Is(n, "BasicLit") ->
            IF n.litKind = "STRING" /\ containsSecretPattern(r, n.value)
            THEN <<NewIssue(r, n.pos, ctx,
                     Msg("potential hard-coded secret in string literal", <<>>))>>
            ELSE <<>>
      [] OTHER -> <<>>

\* HardcodedSecretsRule.Check
CheckHardcodedSecrets(r, ctx) ==
    LET issuesOf(n) == HardcodedSecretsIssues(r, ctx, n)
    IN  Returned(Collect(Inspect(ctx.File), issuesOf))

(***************************************************************************)
(* InsecureHTTPRule (SEC003)                                               *)
(***************************************************************************)

NewInsecureHTTPRule ==
    [id |-> "SEC003",
     description |-> "insecure HTTP server settings found",
     severity |-> SeverityHigh]

\* The composite literal has the type pkg.name.
IsLiteralOf(lit, pkg, name) ==
    /\ Is(lit.type, "SelectorExpr")
    /\ Is(lit.type.x, "Ident")
    /\ lit.type.x.name = pkg
    /\ lit.type.sel.name = name

isTLSConfigLiteral(lit) == IsLiteralOf(lit, <<"t","l","s">>, <<"C","o","n","f","i","g">>)

isHTTPTransportLiteral(lit) == IsLiteralOf(lit, <<"h","t","t","p">>, <<"T","r","a","n","s","p","o","r","t">>)

isHTTPServerLiteral(lit) == IsLiteralOf(lit, <<"h","t","t","p">>, <<"S","e","r","v","e","r">>)

isInsecureHTTPFunction(sel) ==
    /\ Is(sel.x, "Ident")
    /\ sel.x.name = <<"h","t","t","p">>
    /\ sel.sel.name \in {<<"L","i","s","t","e","n","A","n","d","S","e","r","v","e">>}

isHTTPURLInCode(callExpr) ==
    \E i \in 1..Len(callExpr.args) :
        /\ StringLit(callExpr.args[i])
        /\ LET value == Trim(callExpr.args[i].value, Quotes)
           IN  /\ HasPrefix(value, <<"h","t","t","p",":","/","/">>)
               /\ ~Contains(value, <<"l","o","c","a","l","h","o","s","t">>)
               /\ ~Contains(value, <<"h","t","t","p",":","/","/","1","2","7",".","0",".","0",".","1">>)
               /\ ~Contains(value, <<"h","t","t","p",":","/","/","0",".","0",".","0",".","0">>)

\* elt is a key: value element whose key is an identifier.
KeyedElt(elt) == Is(elt, "KeyValueExpr") /\ Is(elt.key, "Ident")

\* checkTLSConfig, one element.
TLSConfigIssues(r, ctx, kv) ==
    IF ~KeyedElt(kv) THEN <<>>
    ELSE CASE kv.key.name = <<"I","n","s","e","c","u","r","e","S","k","i","p","V","e","r","i","f","y">> ->
                 IF Is(kv.val, "Ident") /\ kv.val.name = <<"t","r","u","e">>
                 THEN <<NewIssue(r, kv.pos, ctx,
                          Msg("InsecureSkipVerify=true turns off the TLS certificate check", <<>>))>>
                 ELSE <<>>
           [] kv.key.name = <<"M","i","n","V","e","r","s","i","o","n">> ->
                 IF /\ Is(kv.val, "SelectorExpr")
                    /\ Is(kv.val.x, "Ident")
                    /\ kv.val.x.name = <<"t","l","s">>
                    /\ kv.val.sel.name \in {<<"V","e","r","s","i","o","n","S","S","L","3","0">>, <<"V","e","r","s","i","o","n","T","L","S","1","0">>, <<"V","e","r","s","i","o","n","T","L","S","1","1">>}
                 THEN <<NewIssue(r, kv.pos, ctx,
                          Msg("outdated and insecure TLS version", kv.val.sel.name))>>
                 ELSE <<>>
           [] OTHER -> <<>>

checkTLSConfig(r, lit, ctx) ==
    Flatten([i \in 1..Len(lit.elts) |-> TLSConfigIssues(r, ctx, lit.elts[i])])

\* checkHTTPTransport, one element.
HTTPTransportIssues(r, ctx, kv) ==
    IF ~KeyedElt(kv) THEN <<>>
    ELSE IF kv.key.name = <<"T","L","S","C","l","i","e","n","t","C","o","n","f","i","g">>
         THEN IF Is(kv.val, "CompositeLit") THEN checkTLSConfig(r, kv.val, ctx) ELSE <<>>
         ELSE IF /\ kv.key.name \in {<<"D","i","s","a","b","l","e","K","e","e","p","A","l","i","v","e","s">>, <<"D","i","s","a","b","l","e","C","o","m","p","r","e","s","s","i","o","n">>}
                 /\ Is(kv.val, "Ident")
                 /\ kv.val.name = <<"t","r","u","e">>
              THEN <<NewIssue(r, kv.pos, ctx,
                       Msg("turning this off can lead to security or performance problems",
                           kv.key.name))>>
              ELSE <<>>

checkHTTPTransport(r, lit, ctx) ==
    Flatten([i \in 1..Len(lit.elts) |-> HTTPTransportIssues(r, ctx, lit.elts[i])])

\* Some element of the literal has the key name.
HasKey(lit, name) ==
    \E i \in 1..Len(lit.elts) : KeyedElt(lit.elts[i]) /\ lit.elts[i].key.name = name

\* checkHTTPServer, one element of the first loop.
HTTPServerIssues(r, ctx, lit, kv) ==
    IF ~KeyedElt(kv) THEN <<>>
    ELSE CASE kv.key.name = <<"T","L","S","C","o","n","f","i","g">> ->
                 IF Is(kv.val, "CompositeLit") THEN checkTLSConfig(r, kv.val, ctx) ELSE <<>>
           [] kv.key.name \in {<<"R","e","a","d","T","i","m","e","o","u","t">>, <<"W","r","i","t","e","T","i","m","e","o","u","t">>, <<"I","d","l","e","T","i","m","e","o","u","t">>} ->
                 IF ~Is(kv.val, "BasicLit")
                 THEN LET hasMissingTimeout == ~HasKey(lit, kv.key.name)
                      IN  IF hasMissingTimeout
                          THEN <<NewIssue(r, lit.pos, ctx,
                                   Msg("important timeout of http.Server is missing", kv.key.name))>>
                          ELSE <<>>
                 ELSE <<>>
           [] OTHER -> <<>>

checkHTTPServer(r, lit, ctx) ==
    Flatten([i \in 1..Len(lit.elts) |-> HTTPServerIssues(r, ctx, lit, lit.elts[i])])
    \o
    (LET hasTLSConfig == HasKey(lit, <<"T","L","S","C","o","n","f","i","g">>)
     IN  IF ~hasTLSConfig
         THEN <<NewIssue(r, lit.pos, ctx,
                  Msg("the HTTP server is not set up to use TLS (HTTPS)", <<>>))>>
         ELSE <<>>)

\* One node of the walk: the issues the callback appends.
InsecureHTTPIssues(r, ctx, n) ==
    CASE Is(n, "CompositeLit") ->
            IF isTLSConfigLiteral(n) THEN checkTLSConfig(r, n, ctx)
            ELSE IF isHTTPTransportLiteral(n) THEN checkHTTPTransport(r, n, ctx)
            ELSE IF isHTTPServerLiteral(n) THEN checkHTTPServer(r, n, ctx)
            ELSE <<>>
      [] Is(n, "CallExpr") ->
            (IF Is(n.fun, "SelectorExpr") /\ isInsecureHTTPFunction(n.fun)
             THEN <<NewIssue(r, n.pos, ctx,
                      Msg("use of the insecure HTTP function", n.fun.sel.name))>>
             ELSE <<>>)
            \o
            (IF isHTTPURLInCode(n)
             THEN <<NewIssue(r, n.pos, ctx,
                      Msg("HTTP is used instead of HTTPS", <<>>))>>
             ELSE <<>>)
      [] OTHER -> <<>>

\* InsecureHTTPRule.Check
CheckInsecureHTTP(r, ctx) ==
    LET issuesOf(n) == InsecureHTTPIssues(r, ctx, n)
    IN  Returned(Collect(Inspect(ctx.File), issuesOf))

(***************************************************************************)
(* internal/rules/errorcheck.go: MissingErrorCheckRule (SEC004)            *)
(***************************************************************************)

NewMissingErrorCheckRule ==
    [id |-> "SEC004",
     description |-> "no error check after a critical operation",
     severity |-> SeverityMedium,
     criticalFunctions |->
        {<<"W","r","i","t","e">>, <<"W","r","i","t","e","S","t","r","i","n","g">>, <<"R","e","a","d">>, <<"R","e","a","d","A","l","l">>, <<"C","l","o","s","e">>, <<"E","x","e","c">>,
         <<"Q","u","e","r","y">>, <<"Q","u","e","r","y","R","o","w">>, <<"O","p","e","n">>, <<"C","r","e","a","t","e">>, <<"R","e","a","d","F","i","l","e">>,
         <<"W","r","i","t","e","F","i","l","e">>, <<"U","n","m","a","r","s","h","a","l">>, <<"M","a","r","s","h","a","l">>, <<"N","e","w","D","e","c","o","d","e","r">>,
         <<"N","e","w","E","n","c","o","d","e","r">>, <<"D","e","c","o","d","e">>, <<"E","n","c","o","d","e">>, <<"S","c","a","n">>, <<"N","e","w">>, <<"L","i","s","t","e","n">>,
         <<"L","i","s","t","e","n","A","n","d","S","e","r","v","e">>, <<"L","i","s","t","e","n","A","n","d","S","e","r","v","e","T","L","S">>, <<"D","i","a","l">>, <<"D","i","a","l","T","L","S">>,
         <<"C","o","n","n","e","c","t">>, <<"S","t","a","r","t">>, <<"R","u","n">>, <<"C","o","p","y">>}]

\* The identifier is named like an error.
ErrorLikeName(name) ==
    HasSuffix(name, <<"e","r","r">>) \/ name = <<"e">> \/ name = <<"e","r","r","o","r">>

isErrorCheck(expr) ==
    IF expr.op \in {"!=", "=="}
    THEN IF Is(expr.x, "Ident") /\ Is(expr.y, "Ident") /\ expr.y.name = <<"n","i","l">>
         THEN ErrorLikeName(expr.x.name)
         ELSE IF Is(expr.y, "Ident") /\ Is(expr.x, "Ident") /\ expr.x.name = <<"n","i","l">>
              THEN ErrorLikeName(expr.y.name)
              ELSE FALSE
    ELSE FALSE

isLoggingFunction(sel) ==
    IF Is(sel.x, "Ident")
    THEN LET pkgName == sel.x.name
             funcName == sel.sel.name
         IN  \/ /\ pkgName = <<"l","o","g">>
                /\ funcName \in {<<"F","a","t","a","l">>, <<"F","a","t","a","l","f">>, <<"P","r","i","n","t">>, <<"P","r","i","n","t","f">>,
                                 <<"P","a","n","i","c">>, <<"P","a","n","i","c","f">>}
             \/ /\ pkgName = <<"f","m","t">>
                /\ funcName \in {<<"P","r","i","n","t">>, <<"P","r","i","n","t","f">>, <<"P","r","i","n","t","l","n">>, <<"S","p","r","i","n","t">>,
                                 <<"S","p","r","i","n","t","f">>, <<"S","p","r","i","n","t","l","n">>}
             \/ /\ pkgName \in {<<"l","o","g","g","e","r">>, <<"l","o","g","g","i","n","g">>, <<"l","o","g","r","u","s">>, <<"z","a","p">>,
                                <<"z","e","r","o","l","o","g">>}
                /\ funcName \in {<<"E","r","r","o","r">>, <<"E","r","r","o","r","f">>, <<"W","a","r","n">>, <<"W","a","r","n","f">>,
                                 <<"I","n","f","o">>, <<"I","n","f","o","f">>, <<"D","e","b","u","g">>, <<"D","e","b","u","g","f">>}
    ELSE FALSE

\* ident.Obj.Pos() where the source does not test ident.Obj for nil: a nil
\* pointer dereference when the identifier is unresolved.
ObjPosPanics(ident) == ident.obj = <<>>

\* First pass, one node: whether the callback panics on it, and the
\* positions it adds to checkedErrors.
ErrorCheckPanics(n) ==
    /\ Is(n, "BinaryExpr")
    /\ isErrorCheck(n)
    /\ Is(n.x, "Ident")
    /\ ObjPosPanics(n.x)

CheckedBy(n) ==
    CASE Is(n, "BinaryExpr") ->
            IF isErrorCheck(n) /\ Is(n.x, "Ident") /\ n.x.obj # <<>>
            THEN {n.x.obj[1]} ELSE {}
      [] Is(n, "CallExpr") ->
            IF Is(n.fun, "SelectorExpr") /\ isLoggingFunction(n.fun)
            THEN {n.args[i].obj[1] : i \in {j \in 1..Len(n.args) :
                        Is(n.args[j], "Ident") /\ n.args[j].obj # <<>>}}
            ELSE {}
      [] Is(n, "ReturnStmt") ->
            {n.results[i].obj[1] : i \in {j \in 1..Len(n.results) :
                        Is(n.results[j], "Ident") /\ n.results[j].obj # <<>>}}
      [] OTHER -> {}

\* make(map[token.Pos]bool): the map of one call of Check.
NewCheckedErrors == {}

\* The first pass over the file: checkedErrors when it ends, or a panic.
ErrorCheckPass1(nodes) ==
    IF \E i \in 1..Len(nodes) : ErrorCheckPanics(nodes[i])
    THEN [panic |-> TRUE, checkedErrors |-> {}]
    ELSE [panic |-> FALSE,
          checkedErrors |->
             NewCheckedErrors \cup UNION {CheckedBy(nodes[i]) : i \in 1..Len(nodes)}]

\* UncheckedErr with the checked set read at the position of the identifier
\* assigned, not at the position of its declaration.
UncheckedErrByUse(x, checkedErrors) ==
    /\ Is(x, "Ident")
    /\ x.name = <<"e","r","r">>
    /\ x.obj # <<>>
    /\ x.pos \notin checkedErrors

\* UncheckedErr with the blank identifier taken for an ignored error too.
UncheckedErrOrBlank(x, checkedErrors) ==
    /\ Is(x, "Ident")
    /\ \/ x.name = <<"_">>
       \/ /\ x.name = <<"e","r","r">>
          /\ x.obj # <<>>
          /\ x.obj[1] \notin checkedErrors

\* An identifier named err, resolved, whose declaration is not in checkedErrors.
UncheckedErr(x, checkedErrors) ==
    /\ Is(x, "Ident")
    /\ x.name = <<"e","r","r">>
    /\ x.obj # <<>>
    /\ x.obj[1] \notin checkedErrors

\* CriticalCall with every method name taken for a critical one.
CriticalCallAnyName(r, x) ==
    /\ Is(x, "CallExpr")
    /\ Is(x.fun, "SelectorExpr")

CriticalCall(r, x) ==
    /\ Is(x, "CallExpr")
    /\ Is(x.fun, "SelectorExpr")
    /\ x.fun.sel.name \in r.criticalFunctions

\* Second pass, one node: the issues the callback appends.
ErrorCheckIssues(r, ctx, checkedErrors, n) ==
    CASE Is(n, "AssignStmt") /\ n.tok \in {"DEFINE", "ASSIGN"} ->
            IF Len(n.rhs) = 1
            THEN IF /\ Is(n.rhs[1], "CallExpr")
                    /\ Len(n.lhs) >= 2
                    /\ UncheckedErr(n.lhs[Len(n.lhs)], checkedErrors)
                    /\ CriticalCall(r, n.rhs[1])
                 THEN <<NewIssue(r, n.pos, ctx,
                          Msg("no error check after the call of critical function",
                              n.rhs[1].fun.sel.name))>>
                 ELSE <<>>
            ELSE Flatten([i \in 1..Len(n.rhs) |->
                    IF i <= Len(n.lhs) /\ CriticalCall(r, n.rhs[i])
                    THEN Flatten([j \in 1..Len(n.lhs) |->
                            IF j <= Len(n.rhs) /\ UncheckedErr(n.lhs[j], checkedErrors)
                            THEN <<NewIssue(r, n.pos, ctx,
                                     Msg("no error check after the call of critical function",
                                         n.rhs[i].fun.sel.name))>>
                            ELSE <<>>])
                    ELSE <<>>])
      [] Is(n, "ExprStmt") ->
            IF CriticalCall(r, n.x)
            THEN <<NewIssue(r, n.pos, ctx,
                     Msg("the result of the call of critical function is ignored",
                         n.x.fun.sel.name))>>
            ELSE <<>>
      [] OTHER -> <<>>

\* MissingErrorCheckRule.Check
CheckMissingErrorCheck(r, ctx) ==
    LET nodes == Inspect(ctx.File)
        pass1 == ErrorCheckPass1(nodes)
    IN  IF pass1.panic
        THEN Panicked
        ELSE LET issuesOf(n) == ErrorCheckIssues(r, ctx, pass1.checkedErrors, n)
             IN  Returned(Collect(nodes, issuesOf))

(***************************************************************************)
(* InsecureCryptoRule (SEC005)                                             *)
(***************************************************************************)

\* A map[string]string with the given entries <<key, value>>.
StringMap(entries) ==
    [k \in {e[1] : e \in entries} |-> (CHOOSE e \in entries : e[1] = k)[2]]

NewInsecureCryptoRule ==
    [id |-> "SEC005",
     description |-> "use of outdated or insecure cryptographic functions",
     severity |-> SeverityHigh,
     insecureHashAlgorithms |-> {<<"M","D","4">>, <<"M","D","5">>, <<"S","H","A","1">>, <<"R","I","P","E","M","D","1","6","0">>},
     insecureCipherAlgorithms |->
        {<<"D","E","S">>, <<"3","D","E","S">>, <<"R","C","4">>, <<"B","l","o","w","f","i","s","h">>, <<"I","D","E","A">>, <<"C","A","S","T","5">>},
     deprecatedCryptoFunctions |-> StringMap({
        <<<<"G","e","n","e","r","a","t","e","K","e","y">>, "GenerateKey can be insecure without proper entropy">>,
        <<<<"N","e","w","C","i","p","h","e","r">>, "make sure a secure cipher is used">>,
        <<<<"S","e","a","l">>, "check the authentication parameters used">>,
        <<<<"O","p","e","n">>, "check the authentication parameters used">>,
        <<<<"N","e","w","C","B","C","E","n","c","r","y","p","t","e","r">>, "CBC mode can be vulnerable to a padding oracle attack">>,
        <<<<"N","e","w","C","B","C","D","e","c","r","y","p","t","e","r">>, "CBC mode can be vulnerable to a padding oracle attack">>,
        <<<<"N","e","w","C","T","R">>, "CTR mode needs a unique nonce for every message">>,
        <<<<"N","e","w","O","F","B">>, "OFB mode needs a unique IV for every message">>,
        <<<<"N","e","w","C","F","B">>, "CFB mode needs a unique IV for every message">>,
        <<<<"G","e","n","e","r","a","t","e","F","r","o","m","P","a","s","s","w","o","r","d">>, "check the cost parameters used for bcrypt">>}),
     weakKeyLengths |-> [RSA |-> 2048, AES |-> 128, ECDSA |-> 256, DSA |-> 2048,
                         HMAC |-> 256]]

\* strings.Trim(imp.Path.Value, `"`) of every import of the file.
ImportPaths(file) ==
    {Trim(file.imports[i].path.value, {"\""}) : i \in 1..Len(file.imports)}

isImportedFromCrypto(ctx, pkgName) ==
    \E path \in ImportPaths(ctx.File) : path = <<"c","r","y","p","t","o","/">> \o pkgName

\* The value of a string of decimal digits.
RECURSIVE Decimal(_)
Decimal(s) ==
    IF s = <<>> THEN 0
    ELSE 10 * Decimal(SubSeq(s, 1, Len(s) - 1)) + (AsciiIndex(s[Len(s)]) - 17)

\* fmt.Sscanf(s, "%d", &value) on an integer literal: the longest prefix of
\* digits and underscores is read and converted in base 10, which fails on an
\* underscore.  The result is <<value>>, or <<>> when err is not nil.
Sscanf(s) ==
    LET n == CHOOSE k \in 0..Len(s) :
                /\ \A i \in 1..k : s[i] \in DigitChars \cup {"_"}
                /\ (k < Len(s) => s[k + 1] \notin DigitChars \cup {"_"})
        tok == SubSeq(s, 1, n)
    IN  IF n = 0 \/ \E i \in 1..n : tok[i] = "_" THEN <<>> ELSE <<Decimal(tok)>>

checkCryptoCall(r, pkgName, funcName, callExpr, ctx) ==
    (IF pkgName = <<"m","d","5">> /\ funcName = <<"N","e","w">>
     THEN <<NewIssue(r, callExpr.pos, ctx,
              Msg("MD5 is not recommended for cryptographic purposes", <<>>))>>
     ELSE <<>>)
    \o
    (IF pkgName = <<"s","h","a","1">> /\ funcName = <<"N","e","w">>
     THEN <<NewIssue(r, callExpr.pos, ctx,
              Msg("SHA1 is not recommended for cryptographic purposes", <<>>))>>
     ELSE <<>>)
    \o
    (IF pkgName = <<"d","e","s">> /\ funcName \in {<<"N","e","w","C","i","p","h","e","r">>, <<"N","e","w","T","r","i","p","l","e","D","E","S","C","i","p","h","e","r">>}
     THEN <<NewIssue(r, callExpr.pos, ctx,
              Msg("DES and 3DES are outdated and insecure, use AES", <<>>))>>
     ELSE <<>>)
    \o
    (IF pkgName = <<"r","c","4">> /\ funcName = <<"N","e","w","C","i","p","h","e","r">>
     THEN <<NewIssue(r, callExpr.pos, ctx,
              Msg("RC4 is cryptographically weak, use modern AEAD ciphers", <<>>))>>
     ELSE <<>>)
    \o
    (IF pkgName = <<"c","i","p","h","e","r">> /\ funcName \in DOMAIN r.deprecatedCryptoFunctions
     THEN <<NewIssue(r, callExpr.pos, ctx,
              Msg(r.deprecatedCryptoFunctions[funcName], <<>>))>>
     ELSE <<>>)
    \o
    (IF pkgName = <<"r","a","n","d">> /\ funcName = <<"R","e","a","d">> /\ ~isImportedFromCrypto(ctx, <<"r","a","n","d">>)
     THEN <<NewIssue(r, callExpr.pos, ctx,
              Msg("insecure random number generator, use crypto/rand", <<>>))>>
     ELSE <<>>)
    \o
    (IF /\ pkgName = <<"b","c","r","y","p","t">>
        /\ funcName = <<"G","e","n","e","r","a","t","e","F","r","o","m","P","a","s","s","w","o","r","d">>
        /\ Len(callExpr.args) >= 2
        /\ Is(callExpr.args[2], "BasicLit")
        /\ callExpr.args[2].litKind = "INT"
        /\ callExpr.args[2].value \in {<<"4">>, <<"5">>, <<"6">>}
     THEN <<NewIssue(r, callExpr.pos, ctx,
              Msg("the bcrypt cost is too low, use at least 10", <<>>))>>
     ELSE <<>>)

checkKeyGeneration(r, pkgName, funcName, callExpr, ctx) ==
    (IF /\ pkgName = <<"r","s","a">>
        /\ funcName = <<"G","e","n","e","r","a","t","e","K","e","y">>
        /\ Len(callExpr.args) >= 1
        /\ Is(callExpr.args[1], "BasicLit")
        /\ callExpr.args[1].litKind = "INT"
        /\ LET value == Sscanf(callExpr.args[1].value)
           IN  value # <<>> /\ value[1] < 2048
     THEN <<NewIssue(r, callExpr.pos, ctx,
              Msg("the RSA key length is not secure enough, it must be >= 2048 bits", <<>>))>>
     ELSE <<>>)
    \o
    (IF /\ pkgName = <<"a","e","s">>
        /\ funcName = <<"N","e","w","C","i","p","h","e","r">>
        /\ Len(callExpr.args) >= 1
        /\ Is(callExpr.args[1], "Ident")
        /\ Len(callExpr.args[1].name) < 16
     THEN <<NewIssue(r, callExpr.pos, ctx,
              Msg("the AES key is too short, it must be at least 16 bytes (128 bits)", <<>>))>>
     ELSE <<>>)

\* The call is pkg.f(...), pkg an identifier.
PackageCall(x) ==
    Is(x, "CallExpr") /\ Is(x.fun, "SelectorExpr") /\ Is(x.fun.x, "Ident")

\* One node of the walk: the issues the callback appends.
InsecureCryptoIssues(r, ctx, n) ==
    CASE Is(n, "SelectorExpr") ->
            IF Is(n.x, "Ident")
            THEN (IF n.x.name \in {<<"m","d","5">>, <<"s","h","a","1">>}
                  THEN <<NewIssue(r, n.pos, ctx,
                           Msg("use of an insecure hash algorithm", n.x.name))>>
                  ELSE <<>>)
                 \o
                 (IF n.x.name \in {<<"d","e","s">>, <<"r","c","4">>}
                  THEN <<NewIssue(r, n.pos, ctx,
                           Msg("use of an outdated cipher", n.x.name))>>
                  ELSE <<>>)
                 \o
                 (IF n.x.name = <<"c","r","y","p","t","o">> /\ n.sel.name \in r.insecureHashAlgorithms
                  THEN <<NewIssue(r, n.pos, ctx,
                           Msg("use of an insecure hash algorithm", n.sel.name))>>
                  ELSE <<>>)
            ELSE <<>>
      [] Is(n, "CallExpr") ->
            IF PackageCall(n)
            THEN checkCryptoCall(r, n.fun.x.name, n.fun.sel.name, n, ctx)
            ELSE <<>>
      [] Is(n, "ValueSpec") ->
            Flatten([i \in 1..Len(n.values) |->
                IF PackageCall(n.values[i])
                THEN checkKeyGeneration(r, n.values[i].fun.x.name,
                                        n.values[i].fun.sel.name, n.values[i], ctx)
                ELSE <<>>])
      [] OTHER -> <<>>

\* InsecureCryptoRule.Check
CheckInsecureCrypto(r, ctx) ==
    LET hasCryptoImport ==
            \E path \in ImportPaths(ctx.File) :
                \/ HasPrefix(path, <<"c","r","y","p","t","o","/">>)
                \/ Contains(path, <<"c","r","y","p","t","o">>)
                \/ Contains(path, <<"c","i","p","h","e","r">>)
                \/ Contains(path, <<"h","a","s","h">>)
        issuesOf(n) == InsecureCryptoIssues(r, ctx, n)
    IN  IF ~hasCryptoImport
        THEN Returned(<<>>)
        ELSE Returned(Collect(Inspect(ctx.File), issuesOf))

(***************************************************************************)
(* InsecureUserInputRule (SEC006)                                          *)
(***************************************************************************)

\* (?i)(sh|bash|cmd|powershell|exec|system|popen|run|spawn)
commandInjectionRegex(s) ==
    MatchAnyFold(s, {<<"s","h">>, <<"b","a","s","h">>, <<"c","m","d">>, <<"p","o","w","e","r","s","h","e","l","l">>, <<"e","x","e","c">>,
                     <<"s","y","s","t","e","m">>, <<"p","o","p","e","n">>, <<"r","u","n">>, <<"s","p","a","w","n">>})

\* (?i)(innerHTML|outerHTML|document\.write|eval\(|setTimeout\(|setInterval\(|new\s+Function\()
xssRegex(s) ==
    \/ MatchAnyFold(s, {<<"i","n","n","e","r","h","t","m","l">>, <<"o","u","t","e","r","h","t","m","l">>, <<"d","o","c","u","m","e","n","t",".","w","r","i","t","e">>, <<"e","v","a","l","(">>,
                        <<"s","e","t","t","i","m","e","o","u","t","(">>, <<"s","e","t","i","n","t","e","r","v","a","l","(">>})
    \/ \E i \in 1..Len(s) : \E j \in (i + 4)..Len(s) :
          /\ MatchAt(ToLower(s), <<"n","e","w">>, i)
          /\ \A k \in (i + 3)..(j - 1) : s[k] \in SpaceChars
          /\ MatchAt(ToLower(s), <<"f","u","n","c","t","i","o","n","(">>, j)

NewInsecureUserInputRule ==
    [id |-> "SEC006",
     description |-> "unsafe handling of user input",
     severity |-> SeverityHigh,
     userInputSources |->
        <<<<"r",".","U","R","L">>, <<"r",".","F","o","r","m">>, <<"r",".","P","o","s","t","F","o","r","m">>, <<"r",".","M","u","l","t","i","p","a","r","t","F","o","r","m">>, <<"r",".","F","o","r","m","V","a","l","u","e">>,
          <<"r",".","P","o","s","t","F","o","r","m","V","a","l","u","e">>, <<"r",".","Q","u","e","r","y","P","a","r","a","m">>, <<"r",".","Q","u","e","r","y">>, <<"r",".","P","a","r","a","m">>, <<"r",".","B","o","d","y">>,
          <<"j","s","o","n",".","U","n","m","a","r","s","h","a","l">>, <<"j","s","o","n",".","D","e","c","o","d","e">>, <<"x","m","l",".","U","n","m","a","r","s","h","a","l">>, <<"x","m","l",".","D","e","c","o","d","e">>,
          <<"i","o","u","t","i","l",".","R","e","a","d","A","l","l">>, <<"b","u","f","i","o",".","S","c","a","n","n","e","r">>, <<"b","u","f","i","o",".","R","e","a","d","e","r">>>>,
     unsafeFunctions |->
        {<<"e","x","e","c",".","C","o","m","m","a","n","d">>, <<"o","s",".","S","t","a","r","t","P","r","o","c","e","s","s">>, <<"s","y","s","c","a","l","l",".","E","x","e","c">>, <<"t","e","m","p","l","a","t","e",".","H","T","M","L">>,
         <<"t","e","m","p","l","a","t","e",".","J","S">>, <<"t","e","m","p","l","a","t","e",".","C","S","S">>, <<"t","e","m","p","l","a","t","e",".","H","T","M","L","A","t","t","r">>, <<"t","e","m","p","l","a","t","e",".","J","S","S","t","r">>,
         <<"o","s",".","O","p","e","n">>, <<"i","o","u","t","i","l",".","W","r","i","t","e","F","i","l","e">>, <<"o","s",".","C","r","e","a","t","e">>, <<"h","t","t","p",".","G","e","t">>, <<"h","t","t","p",".","P","o","s","t">>,
         <<"h","t","t","p",".","D","o">>, <<"f","i","l","e","p","a","t","h",".","A","b","s">>, <<"f","i","l","e","p","a","t","h",".","J","o","i","n">>, <<"i","o",".","C","o","p","y">>, <<"s","t","r","c","o","n","v",".","A","t","o","i">>,
         <<"s","t","r","c","o","n","v",".","P","a","r","s","e","I","n","t">>, <<"s","t","r","c","o","n","v",".","P","a","r","s","e","F","l","o","a","t">>, <<"s","t","r","c","o","n","v",".","P","a","r","s","e","B","o","o","l">>},
     commandInjectionRegex |-> "(?i)(sh|bash|cmd|powershell|exec|system|popen|run|spawn)",
     xssRegex |-> "(?i)(innerHTML|outerHTML|document\\.write|eval\\(|setTimeout\\(|setInterval\\(|new\\s+Function\\()"]

RECURSIVE astToString(_)
astToString(expr) ==
    CASE Is(expr, "Ident") -> expr.name
      [] Is(expr, "SelectorExpr") -> astToString(expr.x) \o <<".">> \o expr.sel.name
      [] Is(expr, "CallExpr") ->
            IF Is(expr.fun, "SelectorExpr") THEN astToString(expr.fun) ELSE <<"c","a","l","l">>
      [] OTHER -> <<"e","x","p","r">>

\* The string holds one of the rule's user input sources.
HoldsSource(r, exprStr) ==
    \E i \in 1..Len(r.userInputSources) : Contains(exprStr, r.userInputSources[i])

hasWebFramework(r, ctx) ==
    \/ \E path \in ImportPaths(ctx.File) :
          \/ Contains(path, <<"n","e","t","/","h","t","t","p">>)
          \/ Contains(path, <<"g","i","t","h","u","b",".","c","o","m","/","g","i","n","-","g","o","n","i","c">>)
          \/ Contains(path, <<"g","i","t","h","u","b",".","c","o","m","/","g","o","r","i","l","l","a">>)
          \/ Contains(path, <<"g","i","t","h","u","b",".","c","o","m","/","l","a","b","s","t","a","c","k","/","e","c","h","o">>)
          \/ Contains(path, <<"g","i","t","h","u","b",".","c","o","m","/","g","o","-","c","h","i">>)
    \/ LET nodes == Inspect(ctx.File)
       IN  \E i \in 1..Len(nodes) :
              /\ Is(nodes[i], "FuncDecl")
              /\ \E k \in 1..Len(nodes[i].type.params.list) :
                    LET field == nodes[i].type.params.list[k]
                    IN  /\ Is(field.type, "SelectorExpr")
                        /\ \/ Contains(astToString(field.type), <<"h","t","t","p",".","R","e","q","u","e","s","t">>)
                           \/ Contains(astToString(field.type), <<"h","t","t","p",".","R","e","s","p","o","n","s","e","W","r","i","t","e","r">>)

isUserInputSource(r, expr) ==
    CASE Is(expr, "SelectorExpr") -> HoldsSource(r, astToString(expr))
      [] Is(expr, "CallExpr") ->
            Is(expr.fun, "SelectorExpr") /\ HoldsSource(r, astToString(expr.fun))
      [] OTHER -> FALSE

isUnsafeFunction(r, sel) ==
    IF Is(sel.x, "Ident")
    THEN (sel.x.name \o <<".">> \o sel.sel.name) \in r.unsafeFunctions
    ELSE LET exprStr == astToString(sel)
         IN  \/ sel.sel.name \in r.unsafeFunctions
             \/ Contains(exprStr, <<"C","o","m","m","a","n","d">>)
             \/ Contains(exprStr, <<"O","p","e","n">>)
             \/ Contains(exprStr, <<"W","r","i","t","e">>)
             \/ Contains(exprStr, <<"H","T","M","L">>)
             \/ commandInjectionRegex(exprStr)
             \/ xssRegex(exprStr)

\* containsUserInput with tainted identifiers only.
containsUserInputIdentOnly(r, expr, userInputVars) ==
    Is(expr, "Ident") /\ expr.name \in userInputVars

RECURSIVE containsUserInput(_, _, _)
containsUserInput(r, expr, userInputVars) ==
    CASE Is(expr, "Ident") -> expr.name \in userInputVars
      [] Is(expr, "SelectorExpr") -> HoldsSource(r, astToString(expr))
      [] Is(expr, "BinaryExpr") ->
            \/ containsUserInput(r, expr.x, userInputVars)
            \/ containsUserInput(r, expr.y, userInputVars)
      [] Is(expr, "CallExpr") ->
            \E i \in 1..Len(expr.args) : containsUserInput(r, expr.args[i], userInputVars)
      [] OTHER -> FALSE

\* make(map[string]bool): the map of one call of Check.
NewUserInputVars == {}

\* First pass, one node: the names the callback adds to userInputVars.
UserInputVarsOf(r, n) ==
    CASE Is(n, "AssignStmt") ->
            {n.lhs[i].name : i \in {j \in 1..Len(n.rhs) :
                /\ j <= Len(n.lhs)
                /\ isUserInputSource(r, n.rhs[j])
                /\ Is(n.lhs[j], "Ident")}}
      [] Is(n, "ValueSpec") ->
            {n.names[i].name : i \in {j \in 1..Len(n.values) :
                j <= Len(n.names) /\ isUserInputSource(r, n.values[j])}}
      [] OTHER -> {}

\* The message the second pass chooses from the name of the called function.
UserInputMessage(r, name) ==
    IF Contains(name, <<"C","o","m","m","a","n","d">>) \/ commandInjectionRegex(name)
    THEN Msg("potential command injection: user input is used in a command line", <<>>)
    ELSE IF Contains(name, <<"H","T","M","L">>) \/ Contains(name, <<"J","S">>) \/ xssRegex(name)
    THEN Msg("potential XSS vulnerability: user input is used without escaping", <<>>)
    ELSE IF Contains(name, <<"O","p","e","n">>) \/ Contains(name, <<"F","i","l","e">>) \/ Contains(name, <<"C","r","e","a","t","e">>)
    THEN Msg("potential file path injection: user input is used in file operations", <<>>)
    ELSE Msg("unsafe use of user input in function", name)

\* Second pass, one node: the issues the callback appends.
UserInputIssues(r, ctx, userInputVars, n) ==
    IF Is(n, "CallExpr") /\ Is(n.fun, "SelectorExpr") /\ isUnsafeFunction(r, n.fun)
    THEN Flatten([i \in 1..Len(n.args) |->
            IF containsUserInput(r, n.args[i], userInputVars)
            THEN <<NewIssue(r, n.pos, ctx, UserInputMessage(r, n.fun.sel.name))>>
            ELSE <<>>])
    ELSE <<>>

\* InsecureUserInputRule.Check
CheckInsecureUserInput(r, ctx) ==
    IF ~hasWebFramework(r, ctx)
    THEN Returned(<<>>)
    ELSE LET nodes == Inspect(ctx.File)
             userInputVars ==
                NewUserInputVars \cup UNION {UserInputVarsOf(r, nodes[i]) : i \in 1..Len(nodes)}
             issuesOf(n) == UserInputIssues(r, ctx, userInputVars, n)
         IN  Returned(Collect(nodes, issuesOf))

(***************************************************************************)
(* pkg/config: Config, Load, Save, ShouldExclude, IsRuleEnabled            *)
(***************************************************************************)

\* config.Config.  A []string is a sequence; a map is the set of its
\* <<key, value>> entries; a nil and an empty slice or map are not told apart.
ConfigOf(enabledRules, disabledRules, severityOverrides, exclude, ruleSettings) ==
    [EnabledRules |-> enabledRules, DisabledRules |-> disabledRules,
     SeverityOverrides |-> severityOverrides, Exclude |-> exclude,
     RuleSettings |-> ruleSettings]

\* A Config with no severity override and no rule setting.
Config(enabledRules, disabledRules, exclude) ==
    ConfigOf(enabledRules, disabledRules, {}, exclude, {})

DefaultConfig == Config(<<>>, <<>>, <<<<"v","e","n","d","o","r","/">>, <<"t","e","s","t","d","a","t","a","/">>, <<"*","_","t","e","s","t",".","g","o">>>>)

\* The index of the last "/" of s, 0 when there is none.
LastSlash(s) ==
    LET at == {i \in 1..Len(s) : s[i] = "/"}
    IN  IF at = {} THEN 0 ELSE CHOOSE i \in at : \A j \in at : j <= i

\* filepath.Base
Base(path) ==
    IF path = <<>> THEN <<".">>
    ELSE LET keep == {i \in 1..Len(path) : path[i] # "/"}
         IN  IF keep = {} THEN <<"/">>
             ELSE LET end == CHOOSE i \in keep : \A j \in keep : j <= i
                      stripped == SubSeq(path, 1, end)
                  IN  SubSeq(stripped, LastSlash(stripped) + 1, end)

\* filepath.Match for patterns made of literal characters, * (any sequence of
\* characters other than /) and ? (one character other than /).
RECURSIVE Match(_, _)
Match(pattern, name) ==
    IF pattern = <<>> THEN name = <<>>
    ELSE IF Head(pattern) = "*"
         THEN \E k \in 0..Len(name) :
                 /\ \A i \in 1..k : name[i] # "/"
                 /\ Match(Tail(pattern), SubSeq(name, k + 1, Len(name)))
         ELSE /\ name # <<>>
              /\ IF Head(pattern) = "?" THEN Head(name) # "/" ELSE Head(name) = Head(pattern)
              /\ Match(Tail(pattern), Tail(name))

\* filepath.IsAbs
IsAbs(path) == HasPrefix(path, <<"/">>)

\* filepath.Rel(basepath, targpath) of two absolute, clean paths.
Rel(basepath, targpath) ==
    IF basepath = targpath THEN <<".">>
    ELSE IF basepath = <<"/">> THEN Tail(targpath)
    ELSE IF HasPrefix(targpath, basepath \o <<"/">>)
         THEN SubSeq(targpath, Len(basepath) + 2, Len(targpath))
    ELSE <<".",".","/">>

\* ShouldExclude matching the patterns against the path, not its base name.
ShouldExcludeWholePath(c, path) ==
    \E i \in 1..Len(c.Exclude) :
        LET pattern == c.Exclude[i]
        IN  \/ Match(pattern, path)
            \/ /\ IsAbs(path)
               /\ IsAbs(pattern)
               /\ LET relPath == Rel(pattern, path)
                  IN  ~IsAbs(relPath) /\ ~HasPrefix(relPath, <<".",".">>)

\* Config.ShouldExclude
ShouldExclude(c, path) ==
    \E i \in 1..Len(c.Exclude) :
        LET pattern == c.Exclude[i]
        IN  \/ Match(pattern, Base(path))
            \/ /\ IsAbs(path)
               /\ IsAbs(pattern)
               /\ LET relPath == Rel(pattern, path)
                  IN  ~IsAbs(relPath) /\ ~HasPrefix(relPath, <<".",".">>)

\* IsRuleEnabled looking at EnabledRules before DisabledRules.
IsRuleEnabledListFirst(c, ruleID) ==
    IF Len(c.EnabledRules) = 0
    THEN ~\E i \in 1..Len(c.DisabledRules) : c.DisabledRules[i] = ruleID
    ELSE \E i \in 1..Len(c.EnabledRules) : c.EnabledRules[i] = ruleID

\* Config.IsRuleEnabled
IsRuleEnabled(c, ruleID) ==
    IF \E i \in 1..Len(c.DisabledRules) : c.DisabledRules[i] = ruleID THEN FALSE
    ELSE IF Len(c.EnabledRules) = 0 THEN TRUE
    ELSE \E i \in 1..Len(c.EnabledRules) : c.EnabledRules[i] = ruleID

\* A value of type interface{} in a rule's settings: its dynamic type and its
\* value in decimal or as text.
Value(type, val) == [type |-> type, val |-> val]

\* json.Marshal of an interface{} value: a JSON number, string or boolean.
MarshalValue(v) ==
    [json |-> CASE v.type \in {"int", "float64"} -> "number"
                [] v.type = "string" -> "string"
                [] v.type = "bool" -> "boolean",
     text |-> v.val]

\* json.Unmarshal into an interface{}: every number becomes a float64.
UnmarshalValue(j) ==
    Value(CASE j.json = "number" -> "float64"
            [] j.json = "string" -> "string"
            [] j.json = "boolean" -> "bool",
          j.text)

\* The JSON keys of the fields of Config.
JSONKeys == {"enabledRules", "disabledRules", "severityOverrides", "exclude", "ruleSettings"}

\* json.MarshalIndent(c): the members of the object written.  Every field is
\* tagged omitempty: a slice or map of length 0 has no member.
Marshal(c) ==
    [members |-> {k \in JSONKeys :
                    CASE k = "enabledRules" -> Len(c.EnabledRules) > 0
                      [] k = "disabledRules" -> Len(c.DisabledRules) > 0
                      [] k = "severityOverrides" -> c.SeverityOverrides # {}
                      [] k = "exclude" -> Len(c.Exclude) > 0
                      [] k = "ruleSettings" -> c.RuleSettings # {}},
     enabledRules |-> c.EnabledRules,
     disabledRules |-> c.DisabledRules,
     severityOverrides |-> c.SeverityOverrides,
     exclude |-> c.Exclude,
     ruleSettings |->
        {<<e[1], {<<s[1], MarshalValue(s[2])>> : s \in e[2]}>> : e \in c.RuleSettings}]

\* The entries of a map after json.Unmarshal decoded the entries read into
\* it: an entry read replaces the one of the same key, the others stay.
DecodeInto(entries, read) ==
    read \cup {e \in entries : \A r \in read : r[1] # e[1]}

\* json.Unmarshal(data, c): a field whose key the object has is decoded, a
\* slice from length 0; a field whose key it has not is left as it is.
Unmarshal(data, c) ==
    LET has(k) == k \in data.members
    IN  ConfigOf(IF has("enabledRules") THEN data.enabledRules ELSE c.EnabledRules,
                 IF has("disabledRules") THEN data.disabledRules ELSE c.DisabledRules,
                 IF has("severityOverrides")
                 THEN DecodeInto(c.SeverityOverrides, data.severityOverrides)
                 ELSE c.SeverityOverrides,
                 IF has("exclude") THEN data.exclude ELSE c.Exclude,
                 IF has("ruleSettings")
                 THEN DecodeInto(c.RuleSettings,
                                 {<<e[1], {<<s[1], UnmarshalValue(s[2])>> : s \in e[2]}>> :
                                     e \in data.ruleSettings})
                 ELSE c.RuleSettings)

\* Config.Save: the file os.WriteFile writes.
Save(c) == Marshal(c)

\* Load(configPath), file being <<>> or <<data>>, the file at configPath, in a
\* directory that has no .gosecheck.json.
Load(configPath, file) ==
    IF configPath = <<>> THEN [config |-> <<DefaultConfig>>, err |-> FALSE]
    ELSE IF file = <<>> THEN [config |-> <<>>, err |-> TRUE]
    ELSE [config |-> <<Unmarshal(file[1], DefaultConfig)>>, err |-> FALSE]

(***************************************************************************)
(* pkg/report: sortIssues                                                  *)
(***************************************************************************)

\* severityOrder of sortIssues
severityOrder ==
    [s \in {SeverityCritical, SeverityHigh, SeverityMedium, SeverityLow, SeverityInfo} |->
        CASE s = SeverityCritical -> 0
          [] s = SeverityHigh -> 1
          [] s = SeverityMedium -> 2
          [] s = SeverityLow -> 3
          [] s = SeverityInfo -> 4]

\* A comparison that leaves the file path out of the key: what less would be
\* without its second test.
lessNoPath(a, b) ==
    IF a.Severity # b.Severity
    THEN severityOrder[a.Severity] < severityOrder[b.Severity]
    ELSE a.Line < b.Line

\* The less function sortIssues passes to sort.Slice, on the issues a and b.
less(a, b) ==
    IF a.Severity # b.Severity
    THEN severityOrder[a.Severity] < severityOrder[b.Severity]
    ELSE IF a.FilePath # b.FilePath
         THEN StrLess(a.FilePath, b.FilePath)
         ELSE a.Line < b.Line

\* The inner loop of the insertion sort: the element at j moves down while
\* it is less than the one before it.
RECURSIVE SiftDown(_, _)
SiftDown(data, j) ==
    IF j > 1 /\ less(data[j], data[j - 1])
    THEN SiftDown([data EXCEPT ![j] = data[j - 1], ![j - 1] = data[j]], j - 1)
    ELSE data

\* sort.Slice on a slice shorter than 12: an insertion sort from index i on.
RECURSIVE InsertionSort(_, _)
InsertionSort(data, i) ==
    IF i > Len(data) THEN data ELSE InsertionSort(SiftDown(data, i), i + 1)

\* sortIssues(issues): the slice when it returns.
sortIssues(issues) == InsertionSort(issues, 2)

(***************************************************************************)
(* internal/analyzer: New, analyzeFile, isRuleEnabled                      *)
(***************************************************************************)

\* A *config.Config is a sequence: <<>> when nil, <<c>> when it points to c.
NilConfig == <<>>

\* analyzer.New(cfg).rules
NewRules ==
    <<NewSQLInjectionRule, NewHardcodedSecretsRule, NewInsecureHTTPRule,
      NewMissingErrorCheckRule, NewInsecureCryptoRule, NewInsecureUserInputRule>>

\* rule.Check(ctx): the method of the rule's type.
Check(rule, ctx) ==
    CASE rule.id = "SEC001" -> CheckSQLInjection(rule, ctx)
      [] rule.id = "SEC002" -> CheckHardcodedSecrets(rule, ctx)
      [] rule.id = "SEC003" -> CheckInsecureHTTP(rule, ctx)
      [] rule.id = "SEC004" -> CheckMissingErrorCheck(rule, ctx)
      [] rule.id = "SEC005" -> CheckInsecureCrypto(rule, ctx)
      [] rule.id = "SEC006" -> CheckInsecureUserInput(rule, ctx)

\* What a Check that kept state in its receiver would leave: a field that
\* its next call reads, changed.
RuleLeak(rule, ctx) == [rule EXCEPT !.description = "seen " \o rule.id]

\* The fields of the rule instance after rule.Check(ctx): no Check method
\* assigns to a field of its receiver.
RuleAfterCheck(rule, ctx) == rule

\* Analyzer.isRuleEnabled
isRuleEnabled(cfg, ruleID) ==
    IF cfg = NilConfig THEN TRUE ELSE IsRuleEnabled(cfg[1], ruleID)

\* filepath.Dir of a clean path.
Dir(path) ==
    LET slash == LastSlash(path)
    IN  IF slash = 0 THEN <<".">>
        ELSE IF slash = 1 THEN <<"/">>
        ELSE SubSeq(path, 1, slash - 1)

\* The files on disk.  os.ReadFile fails on a path that is not there;
\* parser.ParseFile fails on a file that is not valid Go, and returns the
\* syntax tree of one that is.
NoTree == [kind |-> "none"]
FileSystem ==
    LET file(path, state, tree) == [path |-> path, state |-> state, tree |-> tree]
    IN  {file(<<"d","b",".","g","o">>, "valid", Tree_db),
         file(<<"s","a","f","e",".","g","o">>, "valid", Tree_safe),
         file(<<"l","o","a","d",".","g","o">>, "valid", Tree_load),
         file(<<"r","e","v",".","g","o">>, "valid", Tree_rev),
         file(<<"g","l","o","b","a","l",".","g","o">>, "valid", Tree_global),
         file(<<"h","a","n","d","l","e","r",".","g","o">>, "valid", Tree_handler),
         file(<<"r","u","n","_","t","e","s","t",".","g","o">>, "valid", Tree_run_test),
         file(<<"/","g","e","n","/","d","b",".","g","o">>, "valid", Tree_db),
         file(<<"s","e","r","v","e","r",".","g","o">>, "valid", Tree_server),
         file(<<"h","a","s","h",".","g","o">>, "valid", Tree_hash),
         file(<<"t","a","i","n","t",".","g","o">>, "valid", Tree_taint),
         file(<<"u","n","s","a","f","e","q","u","e","r","y",".","g","o">>, "valid", Tree_unsafequery),
         file(<<"d","i","r","e","c","t","c","a","l","l",".","g","o">>, "valid", Tree_directcall),
         file(<<"s","t","r","u","c","t","s","e","c","r","e","t","s",".","g","o">>, "valid", Tree_structsecrets),
         file(<<"e","r","r","o","r","c","h","e","c","k",".","g","o">>, "valid", Tree_errorcheck),
         file(<<"c","r","e","a","t","e",".","g","o">>, "valid", Tree_create),
         file(<<"b","c","r","y","p","t",".","g","o">>, "valid", Tree_bcrypt),
         file(<<"u","s","e","r","i","n","p","u","t",".","g","o">>, "valid", Tree_userinput),
         file(<<"t","i","m","e","o","u","t","s",".","g","o">>, "valid", Tree_timeouts),
         file(<<"r","s","a","k","e","y",".","g","o">>, "valid", Tree_rsakey),
         file(<<"q","u","e","r","i","e","s",".","g","o">>, "valid", Tree_queries),
         file(<<"a","s","s","i","g","n","m","e","n","t","s",".","g","o">>, "valid", Tree_assignments),
         file(<<"s","i","n","k","s",".","g","o">>, "valid", Tree_sinks),
         file(<<"o","f","f","l","i","n","e",".","g","o">>, "valid", Tree_offline),
         file(<<"r","e","a","s","s","i","g","n",".","g","o">>, "valid", Tree_reassign),
         file(<<"b","r","o","k","e","n",".","g","o">>, "invalid", NoTree)}

OnDisk(path) == \E f \in FileSystem : f.path = path
FileAt(path) == CHOOSE f \in FileSystem : f.path = path

\* os.ReadFile succeeds
ReadFileOk(path) == OnDisk(path)

\* parser.ParseFile succeeds, on a file that was read
ParseFileOk(path) == FileAt(path).state = "valid"

\* What happened during a call, in order: each entry names a call made.
Event(op, arg) == <<op, arg>>

\* One turn of the loop over a.rules for an enabled rule: what rule k's Check
\* ended with (ruleIssues) and left of the rule instance (after), added to
\* the issues and the calls so far.
CheckStep(rs, k, issues, events, ruleIssues, after) ==
    [panic |-> ruleIssues.panic,
     issues |-> IF ruleIssues.panic THEN <<>> ELSE issues \o ruleIssues.issues,
     events |-> Append(Append(events, Event("IsRuleEnabled", rs[k].id)),
                       Event("Check", rs[k].id)),
     rules |-> [rs EXCEPT ![k] = after]]

\* The loop over a.rules of analyzeFile from rule k on.  rs is the rule
\* instances as the checks so far left them.  A panic of a Check ends the
\* call; otherwise the loop goes on with the next rule.
RECURSIVE RunRules(_, _, _, _, _, _)
RECURSIVE NextRule(_, _, _, _)
RunRules(cfg, rs, ctx, k, issues, events) ==
    IF k > Len(rs)
    THEN [panic |-> FALSE, failed |-> FALSE, issues |-> issues, events |-> events, rules |-> rs]
    ELSE IF ~isRuleEnabled(cfg, rs[k].id)
         THEN RunRules(cfg, rs, ctx, k + 1, issues,
                       Append(events, Event("IsRuleEnabled", rs[k].id)))
         ELSE NextRule(cfg, ctx, k,
                       CheckStep(rs, k, issues, events, Check(rs[k], ctx),
                                 RuleAfterCheck(rs[k], ctx)))

NextRule(cfg, ctx, k, step) ==
    IF step.panic
    THEN [panic |-> TRUE, failed |-> FALSE, issues |-> <<>>, events |-> step.events,
          rules |-> step.rules]
    ELSE RunRules(cfg, step.rules, ctx, k + 1, step.issues, step.events)

\* The rules.Context analyzeFile makes; FileSet is the line table of File.
NewContext(cfg, filePath, file) ==
    [File |-> file,
     Config |-> cfg,
     FilePath |-> filePath,
     FileDir |-> Dir(filePath),
     Package |-> file.pkgname.name]

\* An analyzeFile that asks the configuration only after it has read and
\* parsed the file.
analyzeFileReadFirst(cfg, rs, filePath) ==
    LET stop(failed, events) ==
            [panic |-> FALSE, failed |-> failed, issues |-> <<>>, events |-> events,
             rules |-> rs]
        read == <<Event("ReadFile", filePath)>>
        parsed == Append(read, Event("ParseFile", filePath))
        asked == IF cfg = NilConfig THEN parsed
                 ELSE Append(parsed, Event("ShouldExclude", filePath))
    IN  IF ~ReadFileOk(filePath) THEN stop(TRUE, read)
        ELSE IF ~ParseFileOk(filePath) THEN stop(TRUE, parsed)
        ELSE IF cfg # NilConfig /\ ShouldExclude(cfg[1], filePath) THEN stop(FALSE, asked)
        ELSE RunRules(cfg, rs, NewContext(cfg, filePath, FileAt(filePath).tree), 1, <<>>,
                      asked)

\* Analyzer.analyzeFile(filePath) of the analyzer with config cfg and rules
\* rs: the issues and whether the error is not nil (failed), or a panic; the
\* calls it made (events); the rule instances when it ends.
analyzeFile(cfg, rs, filePath) ==
    LET stop(failed, events) ==
            [panic |-> FALSE, failed |-> failed, issues |-> <<>>, events |-> events,
             rules |-> rs]
        asked == IF cfg = NilConfig THEN <<>> ELSE <<Event("ShouldExclude", filePath)>>
        read == Append(asked, Event("ReadFile", filePath))
        parsed == Append(read, Event("ParseFile", filePath))
    IN  IF cfg # NilConfig /\ ShouldExclude(cfg[1], filePath) THEN stop(FALSE, asked)
        ELSE IF ~ReadFileOk(filePath) THEN stop(TRUE, read)
        ELSE IF ~ParseFileOk(filePath) THEN stop(TRUE, parsed)
        ELSE RunRules(cfg, rs, NewContext(cfg, filePath, FileAt(filePath).tree), 1, <<>>,
                      parsed)

(***************************************************************************)
(* internal/analyzer: AnalyzeFiles                                         *)
(*                                                                         *)
(* The caller's goroutine runs the loop, the wait and the return; every    *)
(* go statement adds a goroutine.  Goroutines have no identity: tasks is   *)
(* the bag of their frames.  A frame is at pc                              *)
(*   "analyze"  before a.analyzeFile(path)                                 *)
(*   "lock"     before mu.Lock()                                           *)
(*   "read"     mu held, before allIssues is read by append                *)
(*   "write"    mu held, before allIssues is assigned                      *)
(*   "unlock"   before mu.Unlock()                                         *)
(*   "release"  returning or panicking: before the deferred <-semaphore    *)
(*   "done"     before the deferred wg.Done()                              *)
(*   "fatal"    panicking, the deferred calls made: before the runtime     *)
(*              ends the process                                           *)
(* and leaves the bag when the goroutine ends.                             *)
(***************************************************************************)

\* make(chan struct{}, 10)
SemaphoreCap == 10

\* The longest list of paths submitted, of any paths.
MaxFiles == 2

\* The longest list submitted of one path repeated, longer than SemaphoreCap.
MaxBatch == 11

\* The paths submitted: files with issues, one that makes a rule panic, one
\* the default configuration excludes, one that is not on disk and one that
\* is not valid Go.
Paths == {<<"d","b",".","g","o">>, <<"h","a","n","d","l","e","r",".","g","o">>, <<"g","l","o","b","a","l",".","g","o">>, <<"r","u","n","_","t","e","s","t",".","g","o">>, <<"m","i","s","s","i","n","g",".","g","o">>,
          <<"b","r","o","k","e","n",".","g","o">>}

\* The paths of the long lists.
BatchPaths == {<<"r","u","n","_","t","e","s","t",".","g","o">>, <<"m","i","s","s","i","n","g",".","g","o">>}

\* The configurations the analyzer is made with.
Configs ==
    {NilConfig,
     <<DefaultConfig>>,
     <<Config(<<"SEC001", "SEC002", "SEC004", "SEC006">>, <<"SEC004">>, <<<<"*","_","t","e","s","t",".","g","o">>>>)>>}

\* analyzeFile for the analyzers New makes, over the configurations and
\* the paths above: the table of a function, computed once.
Analysed == {<<c, p, analyzeFile(c, NewRules, p)>> : c \in Configs, p \in Paths}

\* a.analyzeFile(path), read from the table where the table has it.
analyzeFileOf(cfg, rs, path) ==
    IF rs = NewRules /\ cfg \in Configs /\ path \in Paths
    THEN (CHOOSE e \in Analysed : e[1] = cfg /\ e[2] = path)[3]
    ELSE analyzeFile(cfg, rs, path)

VARIABLES
    config,     \* a.config
    rules,      \* a.rules: the rule instances
    filePaths,  \* the argument of AnalyzeFiles
    pcMain,     \* where the caller's goroutine is
    next,       \* the number of loop iterations begun
    allIssues,  \* var allIssues []report.Issue
    mu,         \* sync.Mutex: TRUE when locked
    wg,         \* the counter of the sync.WaitGroup
    semaphore,  \* the number of values in the channel
    tasks,      \* the frames of the goroutines started and not ended
    calls,      \* the calls of analyzeFile made: path, events and outcome of each
    ret,        \* <<>>, or <<r>> when AnalyzeFiles returned r
    crashed,    \* the process was ended by a panic
    reportIssues,     \* the slice passed to sortIssues
    given,      \* the slice as it was when sortIssues was called
    sortPc,     \* where the call of sortIssues is
    checkPath,  \* the file a rule checks on its own
    checkRule,  \* the index of that rule in a.rules
    checkOut,   \* <<>>, or <<r>> when that Check ended with r
    stored,     \* the *Config a caller of package config holds
    written,    \* <<>>, or <<f>> when Save wrote the file f
    reply,      \* <<>>, or <<r>> when the last call of the package returned r
    status,     \* <<>>, or <<n>> when main ended the process with status n
    snippet     \* <<>>, or <<s>> when the file checked is the one made of s

\* The variables of AnalyzeFiles, and those of the calls of sortIssues, of
\* Check and of package config made on their own, and of main.
dispatch == <<config, rules, filePaths, pcMain, next, allIssues, mu, wg, semaphore,
              tasks, calls, ret, crashed>>
conf == <<stored, written, reply>>
apart == <<reportIssues, given, sortPc, checkPath, checkRule, checkOut, conf, status, snippet>>
vars == <<dispatch, apart>>

\* No call of AnalyzeFiles is under way.
NoDispatch ==
    /\ config = NilConfig
    /\ rules = NewRules
    /\ filePaths = <<>>
    /\ pcMain = "idle"
    /\ next = 0
    /\ allIssues = <<>>
    /\ mu = FALSE
    /\ wg = 0
    /\ semaphore = 0
    /\ tasks = EmptyBag
    /\ calls = EmptyBag
    /\ ret = <<>>
    /\ crashed = FALSE

\* No call of package config on its own was made.
NoConf ==
    /\ stored = DefaultConfig
    /\ written = <<>>
    /\ reply = <<>>

\* No call of sortIssues or of Check on its own is under way.
NoSort ==
    /\ reportIssues = <<>>
    /\ given = <<>>
    /\ sortPc = "idle"

NoCheck ==
    /\ checkPath = <<>>
    /\ checkRule = 0
    /\ checkOut = <<>>

\* main has not ended the process.
NoExit == status = <<>>

\* The file checked is one of the file system.
NoSnippet == snippet = <<>>

NoneApart == NoSort /\ NoCheck /\ NoConf /\ NoExit /\ NoSnippet

\* The frame of go func(path) at its start.
NewFrame(path) ==
    [path |-> path, pc |-> "analyze", issues |-> <<>>, read |-> <<>>, panicking |-> FALSE]

\* One frame of the bag replaced by another; removed when to is <<>>.
Move(from, to) ==
    (tasks (-) SetToBag({from})) (+) (IF to = <<>> THEN EmptyBag ELSE SetToBag({to[1]}))

At(pc) == {f \in BagToSet(tasks) : f.pc = pc}

Init ==
    /\ config \in Configs
    /\ rules = NewRules
    /\ filePaths \in
          UNION {[1..n -> Paths] : n \in 0..MaxFiles}
          \cup {[i \in 1..n |-> p] : n \in (SemaphoreCap + 1)..MaxBatch, p \in BatchPaths}
    /\ pcMain = "loop"
    /\ next = 0
    /\ allIssues = <<>>
    /\ mu = FALSE
    /\ wg = 0
    /\ semaphore = 0
    /\ tasks = EmptyBag
    /\ calls = EmptyBag
    /\ ret = <<>>
    /\ crashed = FALSE
    /\ NoneApart

\* for _, filePath := range filePaths { wg.Add(1)
WgAdd ==
    /\ ~crashed
    /\ pcMain = "loop"
    /\ next < Len(filePaths)
    /\ next' = next + 1
    /\ wg' = wg + 1
    /\ pcMain' = "acquire"
    /\ UNCHANGED <<config, rules, filePaths, allIssues, mu, semaphore, tasks, calls, ret,
                   crashed>>
    /\ UNCHANGED apart

\* A send that would not block on a full channel: the loop without its cap.
AcquireNoCap ==
    /\ ~crashed
    /\ pcMain = "acquire"
    /\ semaphore' = semaphore + 1
    /\ pcMain' = "spawn"
    /\ UNCHANGED <<config, rules, filePaths, next, allIssues, mu, wg, tasks, calls, ret,
                   crashed>>
    /\ UNCHANGED apart

\* semaphore <- struct{}{}: blocks while the channel is full
Acquire ==
    /\ ~crashed
    /\ pcMain = "acquire"
    /\ semaphore < SemaphoreCap
    /\ semaphore' = semaphore + 1
    /\ pcMain' = "spawn"
    /\ UNCHANGED <<config, rules, filePaths, next, allIssues, mu, wg, tasks, calls, ret,
                   crashed>>
    /\ UNCHANGED apart

\* go func(path string) {...}(filePath)
Spawn ==
    /\ ~crashed
    /\ pcMain = "spawn"
    /\ tasks' = tasks (+) SetToBag({NewFrame(filePaths[next])})
    /\ pcMain' = "loop"
    /\ UNCHANGED <<config, rules, filePaths, next, allIssues, mu, wg, semaphore, calls,
                   ret, crashed>>
    /\ UNCHANGED apart

\* the range is exhausted
LoopEnd ==
    /\ ~crashed
    /\ pcMain = "loop"
    /\ next = Len(filePaths)
    /\ pcMain' = "wait"
    /\ UNCHANGED <<config, rules, filePaths, next, allIssues, mu, wg, semaphore, tasks,
                   calls, ret, crashed>>
    /\ UNCHANGED apart

\* A return that would not wait for the goroutines.
WaitReturnEarly ==
    /\ ~crashed
    /\ pcMain = "wait"
    /\ pcMain' = "returned"
    /\ ret' = <<[issues |-> allIssues, err |-> "nil"]>>
    /\ UNCHANGED <<config, rules, filePaths, next, allIssues, mu, wg, semaphore, tasks,
                   calls, crashed>>
    /\ UNCHANGED apart

\* A return that would hand a file's error to the caller.
WaitReturnErr ==
    /\ ~crashed
    /\ pcMain = "wait"
    /\ wg = 0
    /\ pcMain' = "returned"
    /\ ret' = <<[issues |-> allIssues,
                 err |-> IF \E c \in BagToSet(calls) : c.failed THEN "error" ELSE "nil"]>>
    /\ UNCHANGED <<config, rules, filePaths, next, allIssues, mu, wg, semaphore, tasks,
                   calls, crashed>>
    /\ UNCHANGED apart

\* wg.Wait(); return allIssues, nil
WaitReturn ==
    /\ ~crashed
    /\ pcMain = "wait"
    /\ wg = 0
    /\ pcMain' = "returned"
    /\ ret' = <<[issues |-> allIssues, err |-> "nil"]>>
    /\ UNCHANGED <<config, rules, filePaths, next, allIssues, mu, wg, semaphore, tasks,
                   calls, crashed>>
    /\ UNCHANGED apart

\* The frame f after a.analyzeFile(path) ended with r: a panic or an error
\* leads to the deferred calls, issues lead to the mutex, none to the end.
AfterAnalyze(f, r) ==
    IF r.panic THEN [f EXCEPT !.pc = "release", !.panicking = TRUE]
    ELSE IF r.failed THEN [f EXCEPT !.pc = "release"]
    ELSE IF Len(r.issues) > 0 THEN [f EXCEPT !.pc = "lock", !.issues = r.issues]
    ELSE [f EXCEPT !.pc = "release"]

\* The record kept of a call of analyzeFile on path that ended with r.
CallOf(path, r) ==
    [path |-> path, events |-> r.events, issues |-> r.issues, failed |-> r.failed,
     panic |-> r.panic]

\* The goroutine of frame f has called a.analyzeFile(path), which ended with r.
Analysing(f, r) ==
    /\ tasks' = Move(f, <<AfterAnalyze(f, r)>>)
    /\ rules' = r.rules
    /\ calls' = calls (+) SetToBag({CallOf(f.path, r)})

\* issues, err := a.analyzeFile(path), and the two tests that follow
Analyze ==
    /\ ~crashed
    /\ \E f \in At("analyze") : Analysing(f, analyzeFileOf(config, rules, f.path))
    /\ UNCHANGED <<config, filePaths, pcMain, next, allIssues, mu, wg, semaphore, ret,
                   crashed>>
    /\ UNCHANGED apart

\* A Lock that would not wait for the mutex to be free.
LockNoWait ==
    /\ ~crashed
    /\ \E f \in At("lock") : tasks' = Move(f, <<[f EXCEPT !.pc = "read"]>>)
    /\ mu' = TRUE
    /\ UNCHANGED <<config, rules, filePaths, pcMain, next, allIssues, wg, semaphore, calls,
                   ret, crashed>>
    /\ UNCHANGED apart

\* mu.Lock(): blocks while the mutex is locked
Lock ==
    /\ ~crashed
    /\ ~mu
    /\ \E f \in At("lock") : tasks' = Move(f, <<[f EXCEPT !.pc = "read"]>>)
    /\ mu' = TRUE
    /\ UNCHANGED <<config, rules, filePaths, pcMain, next, allIssues, wg, semaphore, calls,
                   ret, crashed>>
    /\ UNCHANGED apart

\* append(allIssues, issues...): allIssues is read
ReadAll ==
    /\ ~crashed
    /\ \E f \in At("read") :
          tasks' = Move(f, <<[f EXCEPT !.pc = "write", !.read = allIssues]>>)
    /\ UNCHANGED <<config, rules, filePaths, pcMain, next, allIssues, mu, wg, semaphore,
                   calls, ret, crashed>>
    /\ UNCHANGED apart

\* allIssues = append(...): the longer slice is assigned
WriteAll ==
    /\ ~crashed
    /\ \E f \in At("write") :
          /\ allIssues' = f.read \o f.issues
          /\ tasks' = Move(f, <<[f EXCEPT !.pc = "unlock", !.read = <<>>]>>)
    /\ UNCHANGED <<config, rules, filePaths, pcMain, next, mu, wg, semaphore, calls, ret,
                   crashed>>
    /\ UNCHANGED apart

\* mu.Unlock()
Unlock ==
    /\ ~crashed
    /\ \E f \in At("unlock") : tasks' = Move(f, <<[f EXCEPT !.pc = "release"]>>)
    /\ mu' = FALSE
    /\ UNCHANGED <<config, rules, filePaths, pcMain, next, allIssues, wg, semaphore, calls,
                   ret, crashed>>
    /\ UNCHANGED apart

\* defer func() { <-semaphore }(): the deferred call made last is run first
Release ==
    /\ ~crashed
    /\ \E f \in At("release") : tasks' = Move(f, <<[f EXCEPT !.pc = "done"]>>)
    /\ semaphore' = semaphore - 1
    /\ UNCHANGED <<config, rules, filePaths, pcMain, next, allIssues, mu, wg, calls, ret,
                   crashed>>
    /\ UNCHANGED apart

\* defer wg.Done(); then the goroutine ends, unless it is panicking
Done ==
    /\ ~crashed
    /\ \E f \in At("done") :
          tasks' = Move(f, IF f.panicking THEN <<[f EXCEPT !.pc = "fatal"]>> ELSE <<>>)
    /\ wg' = wg - 1
    /\ UNCHANGED <<config, rules, filePaths, pcMain, next, allIssues, mu, semaphore, calls,
                   ret, crashed>>
    /\ UNCHANGED apart

\* A panic no deferred call recovered from: the runtime ends the process.
Fatal ==
    /\ ~crashed
    /\ At("fatal") # {}
    /\ crashed' = TRUE
    /\ UNCHANGED <<config, rules, filePaths, pcMain, next, allIssues, mu, wg, semaphore,
                   tasks, calls, ret>>
    /\ UNCHANGED apart

Next ==
    \/ WgAdd
    \/ Acquire
    \/ Spawn
    \/ LoopEnd
    \/ WaitReturn
    \/ Analyze
    \/ Lock
    \/ ReadAll
    \/ WriteAll
    \/ Unlock
    \/ Release
    \/ Done
    \/ Fatal

Spec == Init /\ [][Next]_vars

(***************************************************************************)
(* sortIssues called on its own, and one rule's Check called on its own    *)
(***************************************************************************)

\* The longest slice sorted.
MaxIssues == 3

\* The issues sorted: every severity, two paths and two lines.
SortedIssues ==
    {[RuleID |-> "SEC001", Severity |-> s, FilePath |-> p, Line |-> l, Column |-> 1,
      Message |-> Msg("issue", <<>>), Description |-> "description"] :
        s \in DOMAIN severityOrder, p \in {<<"a",".","g","o">>, <<"a","b",".","g","o">>}, l \in {9, 10}}

InitSort ==
    /\ NoDispatch
    /\ reportIssues \in UNION {[1..n -> SortedIssues] : n \in 0..MaxIssues}
    /\ given = reportIssues
    /\ sortPc = "call"
    /\ NoCheck
    /\ NoConf
    /\ NoExit
    /\ NoSnippet

\* sortIssues(issues)
SortIssues ==
    /\ sortPc = "call"
    /\ reportIssues' = sortIssues(reportIssues)
    /\ sortPc' = "returned"
    /\ UNCHANGED <<given, checkPath, checkRule, checkOut, conf, status, snippet>>
    /\ UNCHANGED dispatch

NextSort == SortIssues

SpecSort == InitSort /\ [][NextSort]_vars

\* The files a rule checks on its own: those parser.ParseFile returns a tree of.
CheckedPaths == {f.path : f \in {g \in FileSystem : g.state = "valid"}}

InitRules ==
    /\ NoDispatch
    /\ NoSort
    /\ NoConf
    /\ NoExit
    /\ NoSnippet
    /\ checkPath \in CheckedPaths
    /\ checkRule \in 1..Len(NewRules)
    /\ checkOut = <<>>

\* rule.Check(ctx) on the context analyzeFile makes of the file
CheckRule ==
    /\ checkOut = <<>>
    /\ checkOut' = <<Check(rules[checkRule],
                           NewContext(config, checkPath, FileAt(checkPath).tree))>>
    /\ rules' = [rules EXCEPT ![checkRule] =
                    RuleAfterCheck(rules[checkRule],
                                   NewContext(config, checkPath, FileAt(checkPath).tree))]
    /\ UNCHANGED <<config, filePaths, pcMain, next, allIssues, mu, wg, semaphore, tasks,
                   calls, ret, crashed>>
    /\ UNCHANGED <<reportIssues, given, sortPc, checkPath, checkRule, conf, status, snippet>>

NextRules == CheckRule

SpecRules == InitRules /\ [][NextRules]_vars

(***************************************************************************)
(* The calls of package config made on their own, on a configuration a     *)
(* caller holds and on the file Save writes                                *)
(***************************************************************************)

\* The longest list of enabled and of disabled rules.
MaxListed == 2

\* The rules listed, and the rules asked about: one more.
ListedRules == {"SEC001", "SEC002"}
AskedRules == ListedRules \cup {"SEC003"}

RuleLists == UNION {[1..n -> ListedRules] : n \in 0..MaxListed}

\* The rest of a configuration, as <<Exclude, SeverityOverrides, RuleSettings>>:
\* all empty; the exclude patterns of DefaultConfig; directory and glob
\* patterns, an override and settings of type string and int; an absolute
\* directory and a setting of type float64.
Rest ==
    {<<<<>>, {}, {}>>,
     <<DefaultConfig.Exclude, {}, {}>>,
     <<<<<<"v","e","n","d","o","r","/">>, <<"t","e","s","t","d","a","t","a","/">>, <<"*","_","t","e","s","t",".","g","o">>, <<"*",".","g","e","n","e","r","a","t","e","d",".","g","o">>>>,
       {<<"SEC001", "LOW">>},
       {<<"SEC001", {<<"param1", Value("string", "value1")>>,
                     <<"param2", Value("int", "42")>>}>>}>>,
     <<<<<<"/","g","e","n">>, <<"*",".","g","e","n","e","r","a","t","e","d",".","g","o">>>>,
       {},
       {<<"SEC002", {<<"threshold", Value("float64", "10")>>}>>}>>}

\* The paths asked about.
AskedPaths ==
    {<<"f","i","l","e",".","g","o">>, <<"f","i","l","e","_","t","e","s","t",".","g","o">>, <<"d","i","r","/","f","i","l","e",".","g","o">>, <<"v","e","n","d","o","r","/","f","i","l","e",".","g","o">>,
     <<"d","i","r","/","v","e","n","d","o","r","/","f","i","l","e",".","g","o">>, <<"t","e","s","t","d","a","t","a","/","f","i","l","e",".","g","o">>, <<"d","i","r","/","t","e","s","t","d","a","t","a","/","f","i","l","e",".","g","o">>,
     <<"f","i","l","e",".","g","e","n","e","r","a","t","e","d",".","g","o">>, <<"d","i","r","/","f","i","l","e","_","t","e","s","t",".","g","o">>, <<"/","a","b","s","/","f","i","l","e",".","g","o">>,
     <<"/","a","b","s","/","f","i","l","e","_","t","e","s","t",".","g","o">>, <<"/","g","e","n","/","d","b",".","g","o">>}

\* The file Save writes, and the paths Load is called with: none, that file
\* and a file that does not exist.
SavedFile == <<"s","a","v","e","d",".","j","s","o","n">>
LoadedFiles == {<<>>, SavedFile, <<"n","o","n","_","e","x","i","s","t","e","n","t","_","f","i","l","e",".","j","s","o","n">>}

\* What a call returned: a boolean, or a configuration and an error.
Reply(call, arg, result, loaded, err) ==
    [call |-> call, arg |-> arg, result |-> result, config |-> loaded, err |-> err]

InitConfig ==
    /\ NoDispatch
    /\ NoSort
    /\ NoCheck
    /\ NoExit
    /\ NoSnippet
    /\ stored \in {ConfigOf(e, d, x[2], x[1], x[3]) :
                      e \in RuleLists, d \in RuleLists, x \in Rest}
    /\ written = <<>>
    /\ reply = <<>>

ConfigUnchanged ==
    /\ UNCHANGED dispatch
    /\ UNCHANGED <<reportIssues, given, sortPc, checkPath, checkRule, checkOut, status, snippet>>

\* c.IsRuleEnabled(ruleID)
CallIsRuleEnabled ==
    /\ \E ruleID \in AskedRules :
          reply' = <<Reply("IsRuleEnabled", <<ruleID>>, IsRuleEnabled(stored, ruleID),
                          <<>>, FALSE)>>
    /\ UNCHANGED <<stored, written>>
    /\ ConfigUnchanged

\* c.ShouldExclude(path)
CallShouldExclude ==
    /\ \E path \in AskedPaths :
          reply' = <<Reply("ShouldExclude", path, ShouldExclude(stored, path), <<>>, FALSE)>>
    /\ UNCHANGED <<stored, written>>
    /\ ConfigUnchanged

\* c.Save(configPath): from is the configuration saved
CallSave ==
    /\ written' = <<[data |-> Save(stored), from |-> stored]>>
    /\ reply' = <<Reply("Save", SavedFile, TRUE, <<>>, FALSE)>>
    /\ UNCHANGED stored
    /\ ConfigUnchanged

\* The file at a path.
FileOf(configPath, files) == IF configPath = SavedFile /\ files # <<>> THEN <<files[1].data>> ELSE <<>>

\* c, err := Load(configPath)
Loaded(configPath, r) ==
    /\ reply' = <<Reply("Load", configPath, ~r.err, r.config, r.err)>>
    /\ stored' = IF r.err THEN stored ELSE r.config[1]

CallLoad ==
    /\ \E configPath \in LoadedFiles : Loaded(configPath, Load(configPath, FileOf(configPath, written)))
    /\ UNCHANGED written
    /\ ConfigUnchanged

NextConfig == CallIsRuleEnabled \/ CallShouldExclude \/ CallSave \/ CallLoad

SpecConfig == InitConfig /\ [][NextConfig]_vars

(***************************************************************************)
(* cmd: main, from its call of AnalyzeFiles to the end of the process      *)
(***************************************************************************)

\* The status of a process the Go runtime ends for a panic.
PanicStatus == 2

\* main is run with the configuration config.Load returned, never nil, on
\* the files it found.
InitMain ==
    /\ Init
    /\ config # NilConfig
    /\ Len(filePaths) <= MaxFiles

\* The status main ends with once AnalyzeFiles returned r, writeErr telling
\* whether os.WriteFile of the report failed: os.Exit(1) for an error of
\* AnalyzeFiles or of the write, os.Exit(2) for issues, else the return.
ExitStatus(r, writeErr) ==
    IF r.err # "nil" THEN 1
    ELSE IF writeErr THEN 1
    ELSE IF Len(r.issues) > 0 THEN 2
    ELSE 0

\* results, err := a.AnalyzeFiles(files) has returned: the report, the exit
MainExit ==
    /\ ~crashed
    /\ NoExit
    /\ ret # <<>>
    /\ \E writeErr \in BOOLEAN :
          status' = <<[code |-> ExitStatus(ret[1], writeErr), writeErr |-> writeErr]>>
    /\ UNCHANGED dispatch
    /\ UNCHANGED <<reportIssues, given, sortPc, checkPath, checkRule, checkOut, conf, snippet>>

\* A step of AnalyzeFiles or of its goroutines in a process that has not ended.
Running == NoExit /\ Next

NextMain == Running \/ MainExit

SpecMain == InitMain /\ [][NextMain]_vars

\* The status the process ended with: that of main, or that of the runtime
\* when a panic ended it.
ProcessStatus ==
    IF crashed THEN <<PanicStatus>>
    ELSE IF status # <<>> THEN <<status[1].code>>
    ELSE <<>>

(***************************************************************************)
(* HardcodedSecretsRule.Check called on its own, on the one-line files     *)
(*     package main; var NAME = LIT                                        *)
(*     package main; func init() { NAME := LIT }                           *)
(*     package main; func init() { _ = T{NAME: LIT} }                      *)
(* and on the struct literal of TestHardcodedSecretsRule                   *)
(***************************************************************************)

\* The syntax tree go/parser builds of the file of form s.form, s.name being
\* NAME and s.value the text of the literal LIT with its quotes.
ProgramOf(s) ==
    LET lit(id, pos) == BasicLit(id, pos, "STRING", s.value)
        init(stmt) ==
            FuncDecl(3, 15, Ident(4, 20, <<"i","n","i","t">>, <<>>),
                     FuncType(5, 15, FieldList(6, 24, <<>>), <<>>),
                     BlockStmt(7, 27, <<stmt>>))
        decl ==
            CASE s.form = "var" ->
                    GenDecl(3, 15, "var",
                        <<ValueSpec(4, 19, <<Ident(5, 19, s.name, <<19>>)>>, <<>>,
                                    <<lit(6, 22 + Len(s.name))>>)>>)
              [] s.form = "assign" ->
                    init(AssignStmt(8, 29, <<Ident(9, 29, s.name, <<29>>)>>, "DEFINE",
                                    <<lit(10, 33 + Len(s.name))>>))
              [] s.form = "field" ->
                    init(AssignStmt(8, 29, <<Ident(9, 29, <<"_">>, <<>>)>>, "ASSIGN",
                        <<CompositeLit(10, 33, Ident(11, 33, <<"T">>, <<>>),
                            <<KeyValueExpr(12, 35, Ident(13, 35, s.name, <<>>),
                                           lit(14, 37 + Len(s.name)))>>)>>))
    IN  IF s.form = "program" THEN Tree_structsecrets
        ELSE File(1, 1, Ident(2, 9, <<"m","a","i","n">>, <<>>), <<decl>>, <<>>, <<0>>)

\* The names declared, assigned or used as a key: three that hold a
\* sensitive term and one that holds none.
SnippetNames == {<<"p","a","s","s","w","o","r","d">>, <<"d","b","A","p","i","K","e","y">>, <<"S","e","c","r","e","t">>, <<"u","s","e","r","n","a","m","e">>}

\* A string literal "text", and a raw string literal of that text.
Quoted(text) == <<"\"">> \o text \o <<"\"">>
Raw(text) == <<"BACKQUOTE">> \o text \o <<"BACKQUOTE">>

\* The literals: of 8 characters with letters and digits, of 7, without a
\* digit, without a letter, templates, test values, URLs, a path, a literal
\* that holds an assignment of a quoted value, one that starts with a quote
\* character, and a raw literal of 6 characters.
SnippetValues ==
    {Quoted(<<"a","b","c","1","2","3","4","5">>), Quoted(<<"a","b","c","1","2","3","4">>), Quoted(<<"a","b","c","d","e","f","g","h">>), Quoted(<<"1","2","3","4","5","6","7","8">>),
     Quoted(<<"$","{","S","E","C","R","E","T","_","1","}">>), Quoted(<<"$","(","s","e","c","r","e","t","_","1",")">>), Quoted(<<"{","{","t","o","k","e","n","_","1","}","}">>),
     Quoted(<<"p","a","s","s","w","o","r","d">>), Quoted(<<"1","2","3","4","5","6">>),
     Quoted(<<"h","t","t","p","s",":","/","/","a","1",".","e","x","a","m","p","l","e">>), Quoted(<<"h","t","t","p",":","/","/","a","1",".","e","x","a","m","p","l","e">>), Quoted(<<"/","e","t","c","/","a","1","b","2","c","3","d","4">>),
     Quoted(<<"p","w","d","=","'","a","b","c","d","1","2","3","4","'">>), Quoted(<<"'","a","b","c","1","2","3","4">>), Raw(<<"a","b","1","2","c","d">>)}

Snippets ==
    {[form |-> f, name |-> n, value |-> v] :
        f \in {"var", "assign", "field"}, n \in SnippetNames, v \in SnippetValues}
    \cup {[form |-> "program", name |-> <<>>, value |-> <<>>]}

InitSecrets ==
    /\ NoDispatch
    /\ NoSort
    /\ NoConf
    /\ NoExit
    /\ snippet \in {<<s>> : s \in Snippets}
    /\ checkPath = <<"t","e","s","t",".","g","o">>
    /\ checkRule = CHOOSE i \in DOMAIN NewRules : NewRules[i].id = "SEC002"
    /\ checkOut = <<>>

\* rule.Check(ctx) on the context testRule makes of the file
CheckSnippet ==
    /\ checkOut = <<>>
    /\ checkOut' = <<Check(rules[checkRule],
                           NewContext(<<DefaultConfig>>, checkPath, ProgramOf(snippet[1])))>>
    /\ rules' = [rules EXCEPT ![checkRule] =
                    RuleAfterCheck(rules[checkRule],
                                   NewContext(<<DefaultConfig>>, checkPath,
                                              ProgramOf(snippet[1])))]
    /\ UNCHANGED <<config, filePaths, pcMain, next, allIssues, mu, wg, semaphore, tasks,
                   calls, ret, crashed>>
    /\ UNCHANGED <<reportIssues, given, sortPc, checkPath, checkRule, conf, status, snippet>>

NextSecrets == CheckSnippet

SpecSecrets == InitSecrets /\ [][NextSecrets]_vars

(***************************************************************************)
(* Properties of AnalyzeFiles                                              *)
(***************************************************************************)

\* The bag of the elements of a sequence.
BagOfSeq(s) ==
    [x \in {s[i] : i \in 1..Len(s)} |-> Cardinality({i \in 1..Len(s) : s[i] = x})]

\* The number of times x occurs in the sequence s.
Count(x, s) == Cardinality({i \in 1..Len(s) : s[i] = x})

\* The sum of the values of the function f over the set S.
RECURSIVE Total(_, _)
Total(S, f) ==
    IF S = {} THEN 0
    ELSE LET x == CHOOSE y \in S : TRUE
         IN  f[x] + Total(S \ {x}, f)

\* The number of times x is among the issues of the records of the bag B.
IssuesIn(B, x) ==
    Total(BagToSet(B), [e \in BagToSet(B) |-> CopiesIn(e, B) * Count(x, e.issues)])

\* The configuration cfg with the rule ruleID taken out of its disabled rules.
EnableRule(cfg, ruleID) ==
    LET c == cfg[1]
        kept == {i \in 1..Len(c.DisabledRules) : c.DisabledRules[i] # ruleID}
        nth(k) == CHOOSE i \in kept : Cardinality({j \in kept : j <= i}) = k
    IN  <<[c EXCEPT !.DisabledRules = [k \in 1..Cardinality(kept) |-> c.DisabledRules[nth(k)]]]>>

\* The rules a configuration disables.
DisabledOf(cfg) ==
    IF cfg = NilConfig THEN {}
    ELSE {cfg[1].DisabledRules[i] : i \in 1..Len(cfg[1].DisabledRules)}

\* analyzeFile called on its own, by an analyzer New has just made, for the
\* configurations above and for those with one disabled rule enabled again.
Isolated ==
    {<<c, p, analyzeFile(c, NewRules, p)>> :
        c \in Configs \cup UNION {{EnableRule(d, id) : id \in DisabledOf(d)} : d \in Configs},
        p \in Paths}

IsolatedCall(cfg, path) == (CHOOSE e \in Isolated : e[1] = cfg /\ e[2] = path)[3]

\* The files analysed one at a time, in the order of the list, from the k-th
\* on: the issues gathered, unless a call panics, which ends the run.
RECURSIVE SequentialFrom(_, _, _, _)
SequentialFrom(cfg, paths, k, found) ==
    IF k > Len(paths) THEN [crash |-> FALSE, issues |-> found]
    ELSE LET r == IsolatedCall(cfg, paths[k])
         IN  IF r.panic THEN [crash |-> TRUE, issues |-> <<>>]
             ELSE SequentialFrom(cfg, paths, k + 1, found \o r.issues)

Sequential(cfg, paths) == SequentialFrom(cfg, paths, 1, <<>>)

\* What the calls of analyzeFile that return hand back, in the order of the
\* list: a function of the configuration and the list alone.
RECURSIVE ReturnedFrom(_, _, _)
ReturnedFrom(cfg, paths, k) ==
    IF k > Len(paths) THEN <<>>
    ELSE IsolatedCall(cfg, paths[k]).issues \o ReturnedFrom(cfg, paths, k + 1)

\* The issues of a sequence whose rule is not ruleID.
RECURSIVE Without(_, _)
Without(s, ruleID) ==
    IF s = <<>> THEN <<>>
    ELSE (IF Head(s).RuleID = ruleID THEN <<>> ELSE <<Head(s)>>) \o Without(Tail(s), ruleID)

\* The frames that hold a slot of the semaphore: spawned, and their deferred
\* receive not yet made.
Holding == {f \in BagToSet(tasks) : f.pc \notin {"done", "fatal"}}

\* The number of frames of the bag tasks that are in the set S.
FramesIn(S) == Total(S, [f \in S |-> CopiesIn(f, tasks)])

\* The frames inside the section the mutex guards.
InAppend == {f \in BagToSet(tasks) : f.pc \in {"read", "write", "unlock"}}

\* The frames whose issues are not in allIssues yet.
Pending ==
    [f \in {g \in BagToSet(tasks) : g.pc \in {"lock", "read", "write"}} |-> CopiesIn(f, tasks)]

\* The issues that calls of analyzeFile returned or that allIssues holds.
KnownIssues ==
    UNION {{c.issues[i] : i \in 1..Len(c.issues)} : c \in BagToSet(calls)}
    \cup {allIssues[i] : i \in 1..Len(allIssues)}

\* The number of calls of analyzeFile made on the path p.
CallsOn(p) ==
    Total(BagToSet(calls),
          [c \in BagToSet(calls) |-> IF c.path = p THEN CopiesIn(c, calls) ELSE 0])

\* The call c asked the configuration to exclude its path and was told yes.
Excluded(c) == config # NilConfig /\ ShouldExclude(config[1], c.path)

\* The rank the ordering of the report gives a severity: Critical first.
SeverityRank(s) ==
    LET order == <<SeverityCritical, SeverityHigh, SeverityMedium, SeverityLow, SeverityInfo>>
    IN  CHOOSE i \in 1..Len(order) : order[i] = s

\* a is not after b in the order of (severity rank, file path, line).
KeyLeq(a, b) ==
    \/ SeverityRank(a.Severity) < SeverityRank(b.Severity)
    \/ /\ a.Severity = b.Severity
       /\ \/ StrLess(a.FilePath, b.FilePath)
          \/ a.FilePath = b.FilePath /\ a.Line <= b.Line

(***************************************************************************)
(* C1                                                                      *)
(***************************************************************************)

\* C1: whenever AnalyzeFiles returns, the bag of the issues it returns is the
\* bag of what analyzeFile returns for the paths of the list, which the
\* interleaving of the goroutines has no part in, and it is the bag of the
\* issues gathered by analysing the same files one at a time whenever that
\* run has a result; only the order of the issues depends on the schedule.
C1_SameMultiset ==
    ret # <<>> =>
        /\ BagOfSeq(ret[1].issues) = BagOfSeq(ReturnedFrom(config, filePaths, 1))
        /\ LET one == Sequential(config, filePaths)
           IN  ~one.crash => BagOfSeq(ret[1].issues) = BagOfSeq(one.issues)

\* AnalyzeFiles has returned the issues of two files in an order that is not
\* the order of the list.
C1_Reordered ==
    /\ ret # <<>>
    /\ Len(ret[1].issues) > 1
    /\ ~Sequential(config, filePaths).crash
    /\ ret[1].issues # Sequential(config, filePaths).issues

(***************************************************************************)
(* C2                                                                      *)
(***************************************************************************)

C3_Terminates ==
    /\ ret = <<>> => ENABLED Next
    /\ ret # <<>> =>
          /\ tasks = EmptyBag
          /\ ~mu
          /\ semaphore = 0
          /\ \A i \in 1..Len(filePaths) :
                CallsOn(filePaths[i]) = Count(filePaths[i], filePaths)

(***************************************************************************)
(* C4                                                                      *)
(***************************************************************************)

\* C4: the mutex is locked exactly when one goroutine is between mu.Lock()
\* and mu.Unlock(), so no two are there together and none holds it while it
\* is in analyzeFile; and every issue a call of analyzeFile returned is, as
\* many times as it was returned, either in allIssues or with a goroutine
\* that has not assigned allIssues yet.
C4_AppendExclusive ==
    /\ FramesIn(InAppend) = (IF mu THEN 1 ELSE 0)
    /\ \A x \in KnownIssues :
          Count(x, allIssues) + IssuesIn(Pending, x) = IssuesIn(calls, x)

\* One goroutine is inside the section, holding issues to append,
\* while another waits for the mutex.
C4_Contended ==
    /\ mu
    /\ At("lock") # {}
    /\ \E f \in At("write") : f.issues # <<>>

(***************************************************************************)
(* C5                                                                      *)
(***************************************************************************)

\* C5: for a rule the configuration disables, Check of that rule is never
\* called, and what AnalyzeFiles returns is what the same analysis with the
\* rule enabled returns, less the issues of that rule.
C5_RuleIndependence ==
    \A id \in DisabledOf(config) :
        /\ \A c \in BagToSet(calls) :
              \A i \in 1..Len(c.events) :
                 ~(c.events[i][1] = "Check" /\ c.events[i][2] = id)
        /\ ret # <<>> =>
              LET with == Sequential(EnableRule(config, id), filePaths)
              IN  /\ ~with.crash
                  /\ BagOfSeq(ret[1].issues) = BagOfSeq(Without(with.issues, id))

(***************************************************************************)
(* C6                                                                      *)
(***************************************************************************)

\* C6: a call of analyzeFile on a path the configuration excludes returns no
\* issue and neither reads nor parses nor checks the file; with a
\* configuration, ShouldExclude is the first call analyzeFile makes, before
\* os.ReadFile and parser.ParseFile; and every Check of a rule comes right
\* after IsRuleEnabled was asked about that rule.
C6_ExclusionFirst ==
    \A c \in BagToSet(calls) :
        /\ Excluded(c) =>
              /\ c.issues = <<>>
              /\ ~c.failed
              /\ \A i \in 1..Len(c.events) :
                    c.events[i][1] \notin {"ReadFile", "ParseFile", "Check"}
        /\ config # NilConfig =>
              /\ c.events[1][1] = "ShouldExclude"
              /\ c.events[1][2] = c.path
        /\ \A i \in 1..Len(c.events) :
              c.events[i][1] = "Check" =>
                 /\ i > 1
                 /\ c.events[i - 1][1] = "IsRuleEnabled"
                 /\ c.events[i - 1][2] = c.events[i][2]

\* An excluded file was passed over and another file was checked by a rule.
C6_Excluded ==
    /\ \E c \in BagToSet(calls) : Excluded(c) /\ Len(c.events) = 1
    /\ \E c \in BagToSet(calls) :
          \E i \in 1..Len(c.events) : c.events[i][1] = "Check"

(***************************************************************************)
(* C7                                                                      *)
(***************************************************************************)

\* C7: a call of analyzeFile on a file that cannot be read or cannot be
\* parsed fails and returns no issue; when AnalyzeFiles returns, its error is
\* nil and every issue the calls returned is in its result, as many times as
\* it was returned.
C7_FailureIsolated ==
    /\ \A c \in BagToSet(calls) :
          /\ c.failed => c.issues = <<>>
          /\ (~Excluded(c) /\ (~ReadFileOk(c.path) \/ ~ParseFileOk(c.path))) => c.failed
    /\ ret # <<>> =>
          /\ ret[1].err = "nil"
          /\ \A x \in KnownIssues : Count(x, ret[1].issues) = IssuesIn(calls, x)

\* AnalyzeFiles returned the issues of one file although another failed.
C7_PartialFailure ==
    /\ ret # <<>>
    /\ ret[1].issues # <<>>
    /\ \E c \in BagToSet(calls) : c.failed

(***************************************************************************)
(* C8                                                                      *)
(***************************************************************************)

\* C8: Check of each of the six rules, on each file that parses, returns a
\* list of issues: it never panics.
C8_CheckReturns == checkOut # <<>> => ~checkOut[1].panic

(***************************************************************************)
(* C9                                                                      *)
(***************************************************************************)

\* C9: when sortIssues returns, each issue of the slice is not after the next
\* one in the order of (severity rank, file path, line), with Critical before
\* High before Medium before Low before Info, and the slice holds the issues
\* it was given.
C9_Sorted ==
    sortPc = "returned" =>
        /\ \A i \in 1..(Len(reportIssues) - 1) : KeyLeq(reportIssues[i], reportIssues[i + 1])
        /\ BagOfSeq(reportIssues) = BagOfSeq(given)

\* sortIssues moved the issues of a slice of three or more.
C9_Moved ==
    /\ sortPc = "returned"
    /\ Len(reportIssues) >= 3
    /\ reportIssues # given

(***************************************************************************)
(* C10                                                                     *)
(***************************************************************************)

Occurrence(issue) == <<issue.RuleID, issue.FilePath, issue.Line, issue.Column>>

\* C11: the issues one Check returns report pairwise different occurrences:
\* no two of them have the same rule and the same position.
C11_OnePerOccurrence ==
    (checkOut # <<>> /\ ~checkOut[1].panic) =>
        \A i \in DOMAIN checkOut[1].issues, j \in DOMAIN checkOut[1].issues :
            i # j => Occurrence(checkOut[1].issues[i]) # Occurrence(checkOut[1].issues[j])

(***************************************************************************)
(* C12                                                                     *)
(***************************************************************************)

\* The elements of a list.
Listed(list) == {list[i] : i \in DOMAIN list}

\* The last call was call, and returned.
Replied(call) == reply # <<>> /\ reply[1].call = call

\* C12: IsRuleEnabled(id) returns true exactly when id is not in
\* DisabledRules and EnabledRules is empty or has id.
C12_RuleEnabled ==
    Replied("IsRuleEnabled") =>
        LET id == reply[1].arg[1]
        IN  reply[1].result <=>
                /\ id \notin Listed(stored.DisabledRules)
                /\ \/ stored.EnabledRules = <<>>
                   \/ id \in Listed(stored.EnabledRules)

\* IsRuleEnabled returned false for a rule both lists have.
C12_DisabledOverrides ==
    /\ Replied("IsRuleEnabled")
    /\ reply[1].arg[1] \in Listed(stored.DisabledRules)
    /\ reply[1].arg[1] \in Listed(stored.EnabledRules)
    /\ ~reply[1].result

(***************************************************************************)
(* C13                                                                     *)
(***************************************************************************)

\* The names of the directories on a path: what lies between its start or a
\* "/" and the next "/".
DirsOf(path) ==
    {SubSeq(path, i, j) : <<i, j>> \in
        {p \in (1..Len(path)) \X (1..Len(path)) :
            /\ p[1] <= p[2]
            /\ p[2] < Len(path)
            /\ p[1] = 1 \/ path[p[1] - 1] = "/"
            /\ path[p[2] + 1] = "/"
            /\ \A k \in p[1]..p[2] : path[k] # "/"}}

\* The directory patterns of a configuration that name a directory of the
\* path: a name followed by "/".
DirPatterns(c, path) ==
    {pattern \in Listed(c.Exclude) :
        /\ ~IsAbs(pattern)
        /\ HasSuffix(pattern, <<"/">>)
        /\ SubSeq(pattern, 1, Len(pattern) - 1) \in DirsOf(path)}

\* C13: ShouldExclude returns true for a relative path that has, at any
\* depth, a directory named by a directory pattern of Exclude.
C13_DirectoryExcluded ==
    (/\ Replied("ShouldExclude")
     /\ ~IsAbs(reply[1].arg)
     /\ DirPatterns(stored, reply[1].arg) # {}) => reply[1].result

(***************************************************************************)
(* C14                                                                     *)
(***************************************************************************)

\* The base name of a path that does not end with "/".
NameOf(path) == SubSeq(path, LastSlash(path) + 1, Len(path))

\* The glob patterns of a configuration, a "*" followed by literal
\* characters, that the base name of the path matches: it ends with them.
GlobPatterns(c, path) ==
    {pattern \in Listed(c.Exclude) :
        /\ HasPrefix(pattern, <<"*">>)
        /\ \A i \in 2..Len(pattern) : pattern[i] \notin {"*", "?", "[", "\\", "/"}
        /\ HasSuffix(NameOf(path), Tail(pattern))}

\* The absolute directories of Exclude the path is under.
AbsPatterns(c, path) ==
    {pattern \in Listed(c.Exclude) : IsAbs(pattern) /\ HasPrefix(path, pattern \o <<"/">>)}

\* C14: ShouldExclude returns true for a path, relative or absolute, whose
\* base name matches a glob pattern of Exclude, and false for a path that
\* matches no pattern of Exclude.
C14_GlobExcluded ==
    Replied("ShouldExclude") =>
        LET path == reply[1].arg
        IN  /\ GlobPatterns(stored, path) # {} => reply[1].result
            /\ (/\ GlobPatterns(stored, path) = {}
                /\ DirPatterns(stored, path) = {}
                /\ AbsPatterns(stored, path) = {}) => ~reply[1].result

\* ShouldExclude returned true for an absolute path whose base name matches
\* a glob pattern.
C14_AbsoluteGlob ==
    /\ Replied("ShouldExclude")
    /\ IsAbs(reply[1].arg)
    /\ GlobPatterns(stored, reply[1].arg) # {}
    /\ AbsPatterns(stored, reply[1].arg) = {}
    /\ reply[1].result

(***************************************************************************)
(* C15                                                                     *)
(***************************************************************************)

\* C15: Load of the file a Save wrote returns a configuration equal to the
\* one saved.
C15_RoundTrip ==
    (/\ Replied("Load")
     /\ reply[1].arg = SavedFile
     /\ written # <<>>) =>
        /\ ~reply[1].err
        /\ reply[1].config = <<written[1].from>>

(***************************************************************************)
(* C16                                                                     *)
(***************************************************************************)

\* The run failed: a panic ended the process, AnalyzeFiles returned an error
\* or the report could not be written.
RunFailed ==
    \/ crashed
    \/ /\ status # <<>>
       /\ ret[1].err # "nil" \/ status[1].writeErr

\* The status main ends with when issues were found.
IssuesStatus == ExitStatus([issues |-> <<"issue">>, err |-> "nil"], FALSE)

\* C16: a run that completed ends with status 0 exactly when no issue was
\* found, and a run that failed ends with a status that is neither 0 nor
\* the status of found issues.
C16_ExitStatus ==
    ProcessStatus # <<>> =>
        IF RunFailed
        THEN ProcessStatus[1] \notin {0, IssuesStatus}
        ELSE ProcessStatus[1] = 0 <=> Len(ret[1].issues) = 0

(***************************************************************************)
(* C17                                                                     *)
(***************************************************************************)

\* The rule of this id has checked the file at this path and returned.
Checked(id, path) ==
    /\ checkOut # <<>>
    /\ ~checkOut[1].panic
    /\ rules[checkRule].id = id
    /\ checkPath = path

\* C17: SQLInjectionRule returns exactly one issue for the file that builds
\* a query by concatenation and passes it to db.Query, none of them for its
\* parameterised db.Query(safeQuery, username) of line 16, and exactly one
\* issue for the file whose one call is db.Exec of a concatenation.
C17_InjectionScenario ==
    /\ Checked("SEC001", <<"u","n","s","a","f","e","q","u","e","r","y",".","g","o">>) =>
          /\ Len(checkOut[1].issues) = 1
          /\ \A i \in DOMAIN checkOut[1].issues : checkOut[1].issues[i].Line # 16
    /\ Checked("SEC001", <<"d","i","r","e","c","t","c","a","l","l",".","g","o">>) => Len(checkOut[1].issues) = 1

(***************************************************************************)
(* C18                                                                     *)
(***************************************************************************)

\* The name holds a sensitive term, whatever the case of its letters.
SensitiveName(name) ==
    \E term \in NewHardcodedSecretsRule.sensitiveNames : Contains(ToLower(name), term)

\* What the literal holds between its quotes.
Content(value) == SubSeq(value, 2, Len(value) - 1)

\* The literal reads as a secret: 8 characters or more, a letter and a digit,
\* no template token, no test value, no URL and no absolute path.
SecretValue(text) ==
    /\ Len(text) >= 8
    /\ \E i \in DOMAIN text : text[i] \in LowerChars \cup UpperChars
    /\ \E i \in DOMAIN text : text[i] \in DigitChars
    /\ ~Contains(text, <<"$","{">>) /\ ~Contains(text, <<"$","(">>) /\ ~HasPrefix(text, <<"{","{">>)
    /\ text \notin {<<"p","a","s","s","w","o","r","d">>, <<"1","2","3","4","5","6">>, <<"t","e","s","t">>, <<"e","x","a","m","p","l","e">>}
    /\ ~HasPrefix(text, <<"h","t","t","p",":","/","/">>) /\ ~HasPrefix(text, <<"h","t","t","p","s",":","/","/">>)
    /\ ~HasPrefix(text, <<"/">>)

\* C18: for a declaration, an assignment or a key/value pair of a name and a
\* string literal, HardcodedSecretsRule returns exactly one issue when the
\* name is sensitive and the literal reads as a secret, and none otherwise;
\* for the struct literal with the fields Secret and APIKey it returns
\* exactly 2 issues.
C18_SecretHeuristic ==
    (checkOut # <<>> /\ snippet # <<>>) =>
        LET s == snippet[1]
        IN  IF s.form = "program" THEN Len(checkOut[1].issues) = 2
            ELSE Len(checkOut[1].issues) =
                    IF SensitiveName(s.name) /\ SecretValue(Content(s.value)) THEN 1 ELSE 0

\* The lines of the issues one Check returned, in the order returned.
LinesOf(issues) == [i \in DOMAIN issues |-> issues[i].Line]

\* The lines at which one Check reported.
ReportedLines(issues) == {issues[i].Line : i \in DOMAIN issues}

C20_IgnoredErrors ==
    Checked("SEC004", <<"e","r","r","o","r","c","h","e","c","k",".","g","o">>) =>
        /\ Len(checkOut[1].issues) = 4
        /\ {12, 21, 24, 29} \subseteq ReportedLines(checkOut[1].issues)
        /\ 15 \notin ReportedLines(checkOut[1].issues)


\* The lines of the issues of one Check whose message has the given text.
LinesCiting(issues, text) ==
    {issues[i].Line : i \in {j \in DOMAIN issues : issues[j].Message.text = text}}

\* C21: in a file that imports golang.org/x/crypto/bcrypt, each call
\* bcrypt.GenerateFromPassword(pwd, c) with a literal cost c below 10 (4, 6, 7
\* and 9, lines 6 to 9) raises exactly one low-cost issue, and the calls with
\* cost 10, 12 and bcrypt.DefaultCost (lines 10 to 12) raise none.
C21_LowCost ==
    Checked("SEC005", <<"b","c","r","y","p","t",".","g","o">>) =>
        /\ Len(checkOut[1].issues) = 4
        /\ LinesCiting(checkOut[1].issues, "the bcrypt cost is too low, use at least 10")
              = {6, 7, 8, 9}

\* C22: on the handler of TestInsecureUserInputRule, InsecureUserInputRule
\* returns at least three issues: a command injection at exec.Command (line
\* 15), an XSS at w.Write([]byte(html)) (line 20), html being "<div>" +
\* username + "</div>", and a path injection at os.Open(filename) (line 24).
C22_ThreeCategories ==
    Checked("SEC006", <<"u","s","e","r","i","n","p","u","t",".","g","o">>) =>
        /\ Len(checkOut[1].issues) >= 3
        /\ 15 \in LinesCiting(checkOut[1].issues,
              "potential command injection: user input is used in a command line")
        /\ 20 \in LinesCiting(checkOut[1].issues,
              "potential XSS vulnerability: user input is used without escaping")
        /\ 24 \in LinesCiting(checkOut[1].issues,
              "potential file path injection: user input is used in file operations")

\* How many issues of one Check at the given line cite the given text.
CountCiting(issues, line, text) ==
    Cardinality({i \in DOMAIN issues :
                    issues[i].Line = line /\ issues[i].Message.text = text})

\* C23: an http.Server literal raises one missing-timeout issue for each of
\* ReadTimeout, WriteTimeout and IdleTimeout it does not set: three for the
\* literal of line 9 that sets none, two for the literal of line 10 that sets
\* ReadTimeout only, and none for the literal of line 11 that sets all three.
C23_MissingTimeouts ==
    Checked("SEC003", <<"t","i","m","e","o","u","t","s",".","g","o">>) =>
        /\ CountCiting(checkOut[1].issues, 9,
                       "important timeout of http.Server is missing") = 3
        /\ CountCiting(checkOut[1].issues, 10,
                       "important timeout of http.Server is missing") = 2
        /\ CountCiting(checkOut[1].issues, 11,
                       "important timeout of http.Server is missing") = 0

\* C24: in a file that imports crypto/rsa, each rsa.GenerateKey(rand.Reader, N)
\* with a literal N below 2048 raises a weak-RSA-key issue, in the variable
\* declarations of lines 8 (1024) and 17 (2047) as in the assignment of line 12
\* (512), and the declaration of line 9 (2048) raises none.
C24_WeakRSAKey ==
    Checked("SEC005", <<"r","s","a","k","e","y",".","g","o">>) =>
        LinesCiting(checkOut[1].issues,
                    "the RSA key length is not secure enough, it must be >= 2048 bits")
            = {8, 12, 17}

\* The calls x.M(a, ...) of a file with M in the query/exec vocabulary and at
\* least one argument.
QueryCalls(tree) ==
    LET nodes == Inspect(tree)
    IN  {nodes[i] : i \in {j \in DOMAIN nodes :
            /\ nodes[j].kind = "CallExpr"
            /\ nodes[j].fun.kind = "SelectorExpr"
            /\ nodes[j].fun.sel.name \in
                  {<<"Q","u","e","r","y">>, <<"Q","u","e","r","y","R","o","w">>, <<"E","x","e","c">>, <<"P","r","e","p","a","r","e">>, <<"Q","u","e","r","y","C","o","n","t","e","x","t">>,
                   <<"Q","u","e","r","y","R","o","w","C","o","n","t","e","x","t">>, <<"E","x","e","c","C","o","n","t","e","x","t">>, <<"P","r","e","p","a","r","e","C","o","n","t","e","x","t">>}
            /\ Len(nodes[j].args) > 0}}

\* The rule reported the call n of the file as a possible SQL injection.
Flagged(out, tree, n) ==
    \E i \in DOMAIN out.issues :
        /\ out.issues[i].Message.text =
              "possible SQL injection: use prepared statements with parameters"
        /\ out.issues[i].Line = Position(tree.lines, n.pos).Line
        /\ out.issues[i].Column = Position(tree.lines, n.pos).Column

\* The expression is f.Sprintf("...", ...): a formatting call of a literal template.
LiteralSprintf(e) ==
    /\ e.kind = "CallExpr"
    /\ e.fun.kind = "SelectorExpr"
    /\ e.fun.sel.name = <<"S","p","r","i","n","t","f">>
    /\ Len(e.args) > 0
    /\ e.args[1].kind = "BasicLit"
    /\ e.args[1].litKind = "STRING"

\* The text of a template has a % followed by a character other than d, t, v.
OutsideWhitelist(text) ==
    \E i \in 1..(Len(text) - 1) : text[i] = "%" /\ text[i + 1] \notin {"d", "t", "v"}

IdentOrConcat(e) == e.kind = "Ident" \/ (e.kind = "BinaryExpr" /\ e.op = "+")

\* C25: a call of the query/exec vocabulary is flagged if and only if its
\* first argument is an identifier, a concatenation with +, or a call other
\* than a Sprintf of a literal template that has no placeholder outside
\* %d, %t, %v; so a bare string literal is never flagged, a Sprintf of a
\* literal template is flagged exactly when it has such a placeholder, and
\* every other call given as the query is flagged.
C25_RiskyFirstArgument ==
    Checked("SEC001", <<"q","u","e","r","i","e","s",".","g","o">>) =>
        \A n \in QueryCalls(Tree_queries) :
            Flagged(checkOut[1], Tree_queries, n) <=>
                \/ IdentOrConcat(n.args[1])
                \/ /\ n.args[1].kind = "CallExpr"
                   /\ ~(LiteralSprintf(n.args[1]) /\ ~OutsideWhitelist(n.args[1].args[1].value))

\* The rule has flagged db.Query(buildQuery(name)), whose first argument is a
\* call that is no Sprintf, has flagged the Sprintf of a template with %s
\* and has passed the bare literal and the Sprintf of a template with %d.
C25_CallsFlagged ==
    /\ Checked("SEC001", <<"q","u","e","r","i","e","s",".","g","o">>)
    /\ \E n \in QueryCalls(Tree_queries) :
          /\ n.args[1].kind = "CallExpr"
          /\ ~LiteralSprintf(n.args[1])
          /\ Flagged(checkOut[1], Tree_queries, n)
    /\ \E n \in QueryCalls(Tree_queries) :
          /\ LiteralSprintf(n.args[1])
          /\ Flagged(checkOut[1], Tree_queries, n)
    /\ \E n \in QueryCalls(Tree_queries) :
          /\ LiteralSprintf(n.args[1])
          /\ ~Flagged(checkOut[1], Tree_queries, n)
    /\ \E n \in QueryCalls(Tree_queries) :
          /\ n.args[1].kind = "BasicLit"
          /\ ~Flagged(checkOut[1], Tree_queries, n)

\* C25 as stated: flagged if and only if the first argument is an identifier,
\* a concatenation, or a Sprintf of a template with a placeholder outside
\* %d, %t, %v.
C25_SprintfOnly ==
    Checked("SEC001", <<"q","u","e","r","i","e","s",".","g","o">>) =>
        \A n \in QueryCalls(Tree_queries) :
            Flagged(checkOut[1], Tree_queries, n) <=>
                \/ IdentOrConcat(n.args[1])
                \/ LiteralSprintf(n.args[1]) /\ OutsideWhitelist(n.args[1].args[1].value)

\* The assignments and expression statements of a file.
Statements(tree) ==
    LET nodes == Inspect(tree)
    IN  {nodes[i] : i \in {j \in DOMAIN nodes :
            nodes[j].kind \in {"AssignStmt", "ExprStmt"}}}

\* The issues of one Check at the position of the node n of the file.
IssuesAt(out, tree, n) ==
    {i \in DOMAIN out.issues :
        /\ out.issues[i].Line = Position(tree.lines, n.pos).Line
        /\ out.issues[i].Column = Position(tree.lines, n.pos).Column}

\* The expression is a call x.M(...) with M in the critical vocabulary.
Critical(e) ==
    /\ e.kind = "CallExpr"
    /\ e.fun.kind = "SelectorExpr"
    /\ e.fun.sel.name \in NewMissingErrorCheckRule.criticalFunctions

\* The checked set the first pass builds over the whole file.
CheckedSet(tree) == ErrorCheckPass1(Inspect(tree)).checkedErrors

\* The expression is a declared identifier named err that is not in the
\* checked set.
UncheckedNamedErr(e, tree) ==
    /\ e.kind = "Ident"
    /\ e.name = <<"e","r","r">>
    /\ e.obj # <<>>
    /\ e.obj[1] \notin CheckedSet(tree)

\* How many issues the second pass owes the statement n.
Owed(n, tree) ==
    IF n.kind = "ExprStmt"
    THEN IF Critical(n.x) THEN 1 ELSE 0
    ELSE IF n.tok \notin {"DEFINE", "ASSIGN"} THEN 0
    ELSE IF Len(n.rhs) = 1
    THEN IF /\ Critical(n.rhs[1])
            /\ Len(n.lhs) >= 2
            /\ UncheckedNamedErr(n.lhs[Len(n.lhs)], tree)
         THEN 1 ELSE 0
    ELSE Cardinality({i \in 1..Len(n.rhs) : i <= Len(n.lhs) /\ Critical(n.rhs[i])})
         * Cardinality({j \in 1..Len(n.lhs) :
                            j <= Len(n.rhs) /\ UncheckedNamedErr(n.lhs[j], tree)})

ErrorNamed(e) ==
    /\ e.kind = "Ident"
    /\ e.obj # <<>>
    /\ \/ e.name \in {<<"e">>, <<"e","r","r","o","r">>}
       \/ /\ Len(e.name) >= 3
          /\ SubSeq(e.name, Len(e.name) - 2, Len(e.name)) = <<"e","r","r">>

Tainted(tree) ==
    LET nodes == Inspect(tree)
    IN  UNION {UserInputVarsOf(NewInsecureUserInputRule, nodes[i]) : i \in DOMAIN nodes}

\* The calls of a file to an unsafe sink.
SinkCalls(tree) ==
    LET nodes == Inspect(tree)
    IN  {nodes[i] : i \in {j \in DOMAIN nodes :
            /\ nodes[j].kind = "CallExpr"
            /\ nodes[j].fun.kind = "SelectorExpr"
            /\ isUnsafeFunction(NewInsecureUserInputRule, nodes[j].fun)}}

\* An unsafe argument: a tainted identifier, a selector expression whose text
\* holds an input source, a binary expression with an unsafe operand, a call
\* with an unsafe argument.
RECURSIVE UnsafeArgument(_, _)
UnsafeArgument(e, tainted) ==
    CASE e.kind = "Ident" -> e.name \in tainted
      [] e.kind = "SelectorExpr" -> HoldsSource(NewInsecureUserInputRule, astToString(e))
      [] e.kind = "BinaryExpr" -> UnsafeArgument(e.x, tainted) \/ UnsafeArgument(e.y, tainted)
      [] e.kind = "CallExpr" -> \E i \in DOMAIN e.args : UnsafeArgument(e.args[i], tainted)
      [] OTHER -> FALSE

\* An unsafe argument as C27 states it: identifiers, binary expressions and
\* calls only.
RECURSIVE UnsafeAsStated(_, _)
UnsafeAsStated(e, tainted) ==
    CASE e.kind = "Ident" -> e.name \in tainted
      [] e.kind = "BinaryExpr" -> UnsafeAsStated(e.x, tainted) \/ UnsafeAsStated(e.y, tainted)
      [] e.kind = "CallExpr" -> \E i \in DOMAIN e.args : UnsafeAsStated(e.args[i], tainted)
      [] OTHER -> FALSE

\* The rule has returned from the file checked.
UserInputChecked ==
    checkOut # <<>> /\ ~checkOut[1].panic /\ rules[checkRule].id = "SEC006"

RuleIDs == {"SEC001", "SEC002", "SEC003", "SEC004", "SEC005", "SEC006"}

\* The issue comes from a submitted path the configuration does not exclude
\* and from a registered rule the configuration enables, and it has the
\* severity and the description of that rule.
WellAttributed(x) ==
    /\ \E k \in DOMAIN filePaths :
          /\ filePaths[k] = x.FilePath
          /\ config # NilConfig => ~ShouldExclude(config[1], x.FilePath)
    /\ \E j \in DOMAIN NewRules :
          /\ NewRules[j].id = x.RuleID
          /\ config # NilConfig => IsRuleEnabled(config[1], x.RuleID)
          /\ x.Severity = NewRules[j].severity
          /\ x.Description = NewRules[j].description

\* C28: the six registered rules have the six different IDs SEC001..SEC006,
\* and every issue in the list AnalyzeFiles returns (and every issue in
\* allIssues before that) has the path of a submitted file that is not
\* excluded, the ID of a registered rule that is enabled, and the severity
\* and the description of that rule.
C28_IssuesAttributed ==
    /\ {rules[j].id : j \in DOMAIN rules} = RuleIDs
    /\ \A j \in DOMAIN rules, k \in DOMAIN rules : rules[j].id = rules[k].id => j = k
    /\ \A i \in DOMAIN allIssues : WellAttributed(allIssues[i])
    /\ ret # <<>> => \A i \in DOMAIN ret[1].issues : WellAttributed(ret[1].issues[i])

\* AnalyzeFiles returned issues under a configuration that disables a rule
\* and excludes one of the files submitted.
C28_Filtered ==
    /\ ret # <<>>
    /\ ret[1].issues # <<>>
    /\ config # NilConfig
    /\ \E id \in RuleIDs : ~IsRuleEnabled(config[1], id)
    /\ \E k \in DOMAIN filePaths : ShouldExclude(config[1], filePaths[k])

\* The place of a rule in the registry New makes.
RegistryIndex(id) == CHOOSE j \in DOMAIN NewRules : NewRules[j].id = id

\* The issues of one call of analyzeFile are in registry order.
InRegistryOrder(issues) ==
    \A i \in DOMAIN issues, j \in DOMAIN issues :
        i < j => RegistryIndex(issues[i].RuleID) <= RegistryIndex(issues[j].RuleID)

\* The calls of analyzeFile that returned issues.
Blocks(made) ==
    LET found == {c \in BagToSet(made) : c.issues # <<>>}
    IN  [c \in found |-> CopiesIn(c, made)]

\* The list is the issues of calls of the bag, each call's issues together
\* and whole, one call after the other; of all the calls when exact holds.
RECURSIVE BlockwiseOf(_, _, _)
BlockwiseOf(list, blocks, exact) ==
    IF list = <<>> THEN ~exact \/ blocks = EmptyBag
    ELSE \E c \in BagToSet(blocks) :
            /\ Len(c.issues) <= Len(list)
            /\ SubSeq(list, 1, Len(c.issues)) = c.issues
            /\ BlockwiseOf(SubSeq(list, Len(c.issues) + 1, Len(list)),
                           blocks (-) SetToBag({c}), exact)

\* C29: the issues of every call of analyzeFile are in registry order;
\* allIssues is at every moment made of whole blocks, the issues of one call
\* each, and the list AnalyzeFiles returns is made of the blocks of all the
\* calls that returned issues, in some order.
C29_Blockwise ==
    /\ \A c \in BagToSet(calls) : InRegistryOrder(c.issues)
    /\ BlockwiseOf(allIssues, Blocks(calls), FALSE)
    /\ ret # <<>> => BlockwiseOf(ret[1].issues, Blocks(calls), TRUE)

\* AnalyzeFiles returned the blocks of two different files, the second file
\* submitted first in the list, and one block holds issues of two rules.
C29_Swapped ==
    /\ ret # <<>>
    /\ Len(filePaths) = 2
    /\ filePaths[1] # filePaths[2]
    /\ ret[1].issues # <<>>
    /\ ret[1].issues[1].FilePath = filePaths[2]
    /\ ret[1].issues[Len(ret[1].issues)].FilePath = filePaths[1]
    /\ \E i \in DOMAIN ret[1].issues, j \in DOMAIN ret[1].issues :
          /\ ret[1].issues[i].FilePath = ret[1].issues[j].FilePath
          /\ ret[1].issues[i].RuleID # ret[1].issues[j].RuleID

\* The assignment binds a declared identifier named err, and every such
\* identifier on its left has its declaration in the checked set of the file.
BindsCheckedErr(n, tree) ==
    /\ n.kind = "AssignStmt"
    /\ \E j \in DOMAIN n.lhs : n.lhs[j].kind = "Ident" /\ n.lhs[j].name = <<"e","r","r">>
    /\ \A j \in DOMAIN n.lhs :
          (n.lhs[j].kind = "Ident" /\ n.lhs[j].name = <<"e","r","r">>) =>
              /\ n.lhs[j].obj # <<>>
              /\ n.lhs[j].obj[1] \in CheckedSet(tree)

\* C30: the checked set is that of the whole file and holds declarations: an
\* assignment to a variable err that is compared with nil, logged or returned
\* anywhere in the file is never flagged.  In reassign.go the assignments
\* before the check (line 20), after it (lines 14, 15) and before the logging
\* or the return (lines 30, 31, 36, 37) are not flagged; those to a variable
\* never checked (lines 42, 43) and to the err a block declares anew (line
\* 52) are.
C30_KeyedByDeclaration ==
    (checkOut # <<>> /\ ~checkOut[1].panic /\ rules[checkRule].id = "SEC004") =>
        /\ \A n \in Statements(FileAt(checkPath).tree) :
              BindsCheckedErr(n, FileAt(checkPath).tree) =>
                  IssuesAt(checkOut[1], FileAt(checkPath).tree, n) = {}
        /\ checkPath = <<"r","e","a","s","s","i","g","n",".","g","o">> =>
              ReportedLines(checkOut[1].issues) = {42, 43, 52}

\* The rule has returned from reassign.go, where a critical call is assigned
\* to a checked err after the check and another before it.
C30_Reassigned ==
    /\ Checked("SEC004", <<"r","e","a","s","s","i","g","n",".","g","o">>)
    /\ \E n \in Statements(Tree_reassign), m \in Statements(Tree_reassign) :
          /\ BindsCheckedErr(n, Tree_reassign)
          /\ BindsCheckedErr(m, Tree_reassign)
          /\ Position(Tree_reassign.lines, n.pos).Line = 14
          /\ Position(Tree_reassign.lines, m.pos).Line = 20
          /\ Critical(n.rhs[1])
          /\ Critical(m.rhs[1])


=============================================================================
